---- MODULE Spec2Model ----
(***************************************************************************)
(* Model of kws_streaming's streaming wrapper (layers/stream.py).          *)
(*                                                                         *)
(* A tensor [batch, time, feature, ...] is modelled on its time axis: a    *)
(* sequence of steps, each step one integer (batch 1, one feature).  A     *)
(* shape is the sequence <<batch, time, feature>>.  Python's None is the   *)
(* empty sequence for tensors and shapes and NoneK for the window length.  *)
(***************************************************************************)
EXTENDS Integers, Sequences, FiniteSets, TLC

-----------------------------------------------------------------------------
VARIABLES
  pc,                    \* "new", "constructed", "built" or "failed"
  cell, inference_batch_size, mode, pad_time_dim, state_shape, kwargs,
  effective_ksize_tdim,
  input_shape,           \* the shape build was given
  states,                \* the persisted buffer (internal state)
  input_state,           \* value fed for the state input (external state)
  output_state,
  error,                 \* what the last operation raised, or "none"
  window,                \* the tensor the cell was last called on
  ret,                   \* what the last call returned
  caller_state,          \* the state the driver loop holds (external state)
  start_state,           \* the state the driver loop started from
  fed,                   \* steps fed so far by successful calls
  outs,                  \* the outputs of the streaming calls, in order
  log,                   \* external-state calls made by hand, as records
  calls,                 \* how many of them
  layers,                \* a chain of external-state instances
  manual_states,         \* their states, threaded by hand
  auto_states,           \* their states, as the driver loop holds them
  prev_auto_states,      \* what the driver loop held one step earlier
  manual_outs,           \* outputs of the chain, states threaded by hand
  auto_outs,             \* outputs of the chain under the driver loop
  chain_fed,             \* steps fed to the chain
  delay_pc,              \* a Delay: "new", "constructed", "built", "failed"
  delay_mode, delay,     \* its mode and delay fields
  delay_state_shape,     \* its state_shape attribute, << >> while not set
  delay_states,          \* its persisted buffer, << >> while there is none
  delay_input_state, delay_output_state,
  delay_error,           \* what its last operation raised, or "none"
  delay_ret,             \* what its last call returned
  delay_window,          \* buffer ++ input of its last streaming call
  delay_held,            \* the state a caller threads by hand
  delay_fed,             \* steps fed to it so far
  delay_outs,            \* the outputs of its calls, in order
  accessed,              \* the last state accessor call and its result
  configs,               \* the last get_config round trip and its result
  twin_state,            \* the state held for an external-state twin
  twin_outs,             \* the twin's outputs, in order
  race_pc,               \* two racing calls: "idle", "read" or "done" each
  race_in,               \* the step each of them feeds
  race_local,            \* the memory each of them has computed
  race_order,            \* their reads and writes, in the order they ran
  stack,                 \* a stack of wrapped convolutions: its cells
  stack_pc,              \* "new", "built", "streaming" or "failed"
  stack_error,           \* what its last operation raised, or "none"
  stack_ret,             \* what the non-streaming stack last returned
  stack_states,          \* the buffers of the streaming stack
  stack_outs,            \* the outputs of the streaming stack, in order
  stack_fed,             \* steps fed to the streaming stack
  net_pc,                \* a ds_tc_resnet model: "new", "built", "streaming"
                         \* or "failed"
  net_flags,             \* the flags it was made from
  net_wrappers,          \* its Stream wrappers, in the order model made them
  net_time,              \* the time extent of its encoder's output
  net_error              \* what its last operation raised, or "none"

selfVars ==
  <<cell, inference_batch_size, mode, pad_time_dim, state_shape, kwargs,
    effective_ksize_tdim, input_shape, states, input_state, output_state>>

callerVars == <<error, window, ret, caller_state, start_state, fed, outs>>

pureVars == <<log, calls>>

chainVars ==
  <<layers, manual_states, auto_states, prev_auto_states, manual_outs,
    auto_outs, chain_fed>>

delayVars ==
  <<delay_pc, delay_mode, delay, delay_state_shape, delay_states,
    delay_input_state, delay_output_state, delay_error, delay_ret,
    delay_window, delay_held, delay_fed, delay_outs>>

accessVars == <<accessed>>

configVars == <<configs>>

twinVars == <<twin_state, twin_outs>>

raceVars == <<race_pc, race_in, race_local, race_order>>

stackVars ==
  <<stack, stack_pc, stack_error, stack_ret, stack_states, stack_outs,
    stack_fed>>

resnetVars == <<net_pc, net_flags, net_wrappers, net_time, net_error>>

scenarioVars == <<configVars, twinVars, raceVars, stackVars, resnetVars>>

vars ==
  <<pc, selfVars, callerVars, pureVars, chainVars, delayVars, accessVars,
    scenarioVars>>

-----------------------------------------------------------------------------
(* Bounds of the model.                                                    *)
MaxKernel == 3
MaxDilation == 2
MaxStride == 2
MaxPool == 3
MaxStateLen == 2
MaxLen == 3
MaxSteps == 4
MaxCalls == 3
MaxChain == 2
MaxChainSteps == 3
MaxDelay == 3
MaxDelayLen == 3
MaxDelaySteps == 4
MaxStack == 2
MaxStackSteps == 3
MaxBlocks == 2

(* Values of one input step, and the weights a kernel tap may take.        *)
Values == {0, 1}

(* effective_ksize_tdim = None (stream.py line 62).                        *)
NoneK == 0

Modes ==
  {"TRAINING", "NON_STREAM_INFERENCE",
   "STREAM_INTERNAL_STATE_INFERENCE", "STREAM_EXTERNAL_STATE_INFERENCE"}

NonStreamModes == {"TRAINING", "NON_STREAM_INFERENCE"}

StreamModes == Modes \ NonStreamModes

-----------------------------------------------------------------------------
(* Cells.  The kinds the wrapper tests with isinstance, and two kinds it   *)
(* does not know (the tests' Sum over time and an identity Lambda).        *)

KernelWeights(k) == {[j \in 1..k |-> j], [j \in 1..k |-> 1]}

ConvCells ==
  {[kind |-> kd, kernel_size |-> k, dilation_rate |-> d, strides |-> s,
    pool_size |-> 0, weights |-> w] :
      kd \in {"Conv2D", "DepthwiseConv2D"}, k \in 1..MaxKernel,
      d \in 1..MaxDilation, s \in 1..MaxStride,
      w \in UNION {KernelWeights(kk) : kk \in 1..MaxKernel}}

PoolCells ==
  {[kind |-> "AveragePooling2D", kernel_size |-> 0, dilation_rate |-> 0,
    strides |-> s, pool_size |-> p, weights |-> << >>] :
      s \in 1..MaxPool, p \in 1..MaxPool}

OtherCell(kd) ==
  [kind |-> kd, kernel_size |-> 0, dilation_rate |-> 0, strides |-> 0,
   pool_size |-> 0, weights |-> << >>]

Cells ==
  {c \in ConvCells : Len(c.weights) = c.kernel_size} \cup PoolCells
    \cup {OtherCell("Flatten"), OtherCell("Sum"), OtherCell("Lambda")}

IsConv(c) == c.kind \in {"Conv2D", "DepthwiseConv2D"}

IsPool(c) == c.kind = "AveragePooling2D"

IsFlatten(c) == c.kind = "Flatten"

-----------------------------------------------------------------------------
(* Tensor helpers.                                                          *)

RECURSIVE SumSeq(_)
SumSeq(s) == IF s = << >> THEN 0 ELSE Head(s) + SumSeq(Tail(s))

Min(a, b) == IF a < b THEN a ELSE b

Zeros(n) == [i \in 1..n |-> 0]

(* x[:, a:b] on the time axis, for 0 <= a and 0 <= b.                      *)
Slice(x, a, b) == SubSeq(x, a + 1, Min(b, Len(x)))

(* tf.pad(inputs, ((0,0), (left, 0), (0,0), (0,0)), 'constant').           *)
PadLeft(x, left) == Zeros(left) \o x

(* Number of outputs of a 'valid' window of length w moved by stride s.    *)
OutLen(n, w, s) == IF n < w THEN 0 ELSE ((n - w) \div s) + 1

(* The wrapped cell applied to a tensor: a 'valid' (dilated, strided)      *)
(* convolution, a 'valid' average pooling (the mean kept exact as          *)
(* <<sum, count>>), or Flatten (the time axis folded into one vector).     *)
Conv(c, x) ==
  LET w == c.dilation_rate * (c.kernel_size - 1) + 1
  IN  [i \in 1..OutLen(Len(x), w, c.strides) |->
         SumSeq([j \in 1..c.kernel_size |->
                   c.weights[j] * x[(i - 1) * c.strides
                                    + (j - 1) * c.dilation_rate + 1]])]

AvgPool(c, x) ==
  [i \in 1..OutLen(Len(x), c.pool_size, c.strides) |->
     <<SumSeq(SubSeq(x, (i - 1) * c.strides + 1,
                     (i - 1) * c.strides + c.pool_size)), c.pool_size>>]

CellCall(c, x) ==
  CASE IsConv(c) -> Conv(c, x)
    [] IsPool(c) -> AvgPool(c, x)
    [] OTHER -> <<[flat |-> x]>>

(* The cell raises when its window does not fit the input.                 *)
CellFits(c, x) ==
  CASE IsConv(c) -> Len(x) >= c.dilation_rate * (c.kernel_size - 1) + 1
    [] IsPool(c) -> Len(x) >= c.pool_size
    [] OTHER -> TRUE

-----------------------------------------------------------------------------
(* Stream.__init__                                                          *)

(* Keyword arguments the base Layer does not know make it raise.           *)
KwargsSets == {{}, {"ring_buffer_size_in_time_dim"}}

StateShapeArgs == {<< >>} \cup {<<1, n, 1>> : n \in 1..MaxStateLen}

(* The state shapes tried with a cell: every one for Flatten, which reads  *)
(* it, none and the longest for the cells that do not.                     *)
StateShapeArgsFor(c) ==
  IF IsFlatten(c) THEN StateShapeArgs ELSE {<< >>, <<1, MaxStateLen, 1>>}

(* Faults seeded in __init__'s checks.                                      *)
InitErrorConvInternalOnly(c, m, ss, kw) ==
  IF kw # {} THEN "TypeError"
  ELSE IF IsConv(c)
    THEN IF m = "STREAM_INTERNAL_STATE_INFERENCE" /\ c.strides > 1
           THEN "ValueError" ELSE "none"
  ELSE IF IsPool(c)
    THEN IF m \notin NonStreamModes /\ c.strides # c.pool_size
           THEN "ValueError" ELSE "none"
  ELSE IF IsFlatten(c) THEN "none"
  ELSE "ValueError"

InitErrorPoolGreater(c, m, ss, kw) ==
  IF kw # {} THEN "TypeError"
  ELSE IF IsConv(c)
    THEN IF m \notin NonStreamModes /\ c.strides > 1
           THEN "ValueError" ELSE "none"
  ELSE IF IsPool(c)
    THEN IF m \notin NonStreamModes /\ c.strides > c.pool_size
           THEN "ValueError" ELSE "none"
  ELSE IF IsFlatten(c) THEN "none"
  ELSE "ValueError"

InitErrorPoolStrideOne(c, m, ss, kw) ==
  IF kw # {} THEN "TypeError"
  ELSE IF IsConv(c)
    THEN IF m \notin NonStreamModes /\ c.strides > 1
           THEN "ValueError" ELSE "none"
  ELSE IF IsPool(c)
    THEN IF m \notin NonStreamModes /\ c.strides > 1
           THEN "ValueError" ELSE "none"
  ELSE IF IsFlatten(c) THEN "none"
  ELSE "ValueError"

(* Fault: only a stride above 2 is refused for a convolution.              *)
InitErrorConvStrideTwo(c, m, ss, kw) ==
  IF kw # {} THEN "TypeError"
  ELSE IF IsConv(c)
    THEN IF m \notin NonStreamModes /\ c.strides > 2
           THEN "ValueError" ELSE "none"
  ELSE IF IsPool(c)
    THEN IF m \notin NonStreamModes /\ c.strides # c.pool_size
           THEN "ValueError" ELSE "none"
  ELSE IF IsFlatten(c) THEN "none"
  ELSE "ValueError"

InitError(c, m, ss, kw) ==
  IF kw # {} THEN "TypeError"
  ELSE IF IsConv(c)
    THEN IF m \notin NonStreamModes /\ c.strides > 1
           THEN "ValueError" ELSE "none"
  ELSE IF IsPool(c)
    THEN IF m \notin NonStreamModes /\ c.strides # c.pool_size
           THEN "ValueError" ELSE "none"
  ELSE IF IsFlatten(c) THEN "none"
  ELSE "ValueError"

InitKsize(c, ss) ==
  IF IsConv(c) THEN c.dilation_rate * (c.kernel_size - 1) + 1
  ELSE IF IsPool(c) THEN c.pool_size
  ELSE IF IsFlatten(c) /\ ss # << >> THEN ss[2]
  ELSE NoneK

-----------------------------------------------------------------------------
(* Stream.build                                                             *)

(* Fault: Flatten's state shape is taken from the input on every           *)
(* non-streaming build, also when one is already set.                      *)
BuildStateShapeOverwrites(c, m, ss, bs, k, ishape) ==
  IF IsConv(c) \/ IsPool(c) THEN <<bs, k>> \o SubSeq(ishape, 3, Len(ishape))
  ELSE IF IsFlatten(c) /\ m \in NonStreamModes
    THEN [ishape EXCEPT ![1] = bs]
  ELSE ss

(* Fault: a state shape passed to __init__ is kept for every cell.         *)
BuildStateShapeKeepsPassed(c, m, ss, bs, k, ishape) ==
  IF ss # << >> THEN ss
  ELSE IF IsConv(c) \/ IsPool(c)
    THEN <<bs, k>> \o SubSeq(ishape, 3, Len(ishape))
  ELSE IF IsFlatten(c) /\ m \in NonStreamModes
    THEN [ishape EXCEPT ![1] = bs]
  ELSE ss

BuildStateShape(c, m, ss, bs, k, ishape) ==
  IF IsConv(c) \/ IsPool(c) THEN <<bs, k>> \o SubSeq(ishape, 3, Len(ishape))
  ELSE IF IsFlatten(c) /\ ss = << >> /\ m \in NonStreamModes
    THEN [ishape EXCEPT ![1] = bs]
  ELSE ss

(* Input(shape=self.state_shape[1:]) subscripts None.                      *)
BuildError(m, ss) ==
  IF m = "STREAM_EXTERNAL_STATE_INFERENCE" /\ ss = << >>
    THEN "TypeError" ELSE "none"

(* add_weight(shape=state_shape, initializer=zeros); shape None is a scalar.*)
ZeroStates(ss) == IF ss = << >> THEN << >> ELSE Zeros(ss[2])

-----------------------------------------------------------------------------
(* Stream._streaming_internal_state, _streaming_external_state,             *)
(* _non_streaming.  Each gives what it raises, what it returns and the     *)
(* buffer it leaves.                                                        *)

(* Fault: the newest step is dropped from the buffer, not the oldest.       *)
StreamingInternalStateDropNewest(c, k, inputs, st) ==
  IF Len(inputs) # 1
    THEN [error |-> "ValueError", output |-> << >>, memory |-> st]
  ELSE IF st = << >>
    THEN [error |-> "IndexError", output |-> << >>, memory |-> st]
  ELSE LET memory == Slice(st, 0, k - 1) \o inputs
       IN  [error |-> "none", output |-> CellCall(c, memory),
            memory |-> memory]

(* Fault: the buffer is shifted before the input's length is checked.       *)
StreamingInternalStateShiftFirst(c, k, inputs, st) ==
  IF st = << >>
    THEN [error |-> "IndexError", output |-> << >>, memory |-> st]
  ELSE LET memory == Slice(st, 1, k) \o inputs
       IN  IF Len(inputs) # 1
             THEN [error |-> "ValueError", output |-> << >>,
                   memory |-> memory]
             ELSE [error |-> "none", output |-> CellCall(c, memory),
                   memory |-> memory]

(* Fault: the oldest step is kept, so the window is one step too long.     *)
StreamingInternalStateKeepOldest(c, k, inputs, st) ==
  IF Len(inputs) # 1
    THEN [error |-> "ValueError", output |-> << >>, memory |-> st]
  ELSE IF st = << >>
    THEN [error |-> "IndexError", output |-> << >>, memory |-> st]
  ELSE LET memory == Slice(st, 0, k) \o inputs
       IN  [error |-> "none", output |-> CellCall(c, memory),
            memory |-> memory]

StreamingInternalState(c, k, inputs, st) ==
  IF Len(inputs) # 1
    THEN [error |-> "ValueError", output |-> << >>, memory |-> st]
  ELSE IF st = << >>
    THEN [error |-> "IndexError", output |-> << >>, memory |-> st]
  ELSE LET memory == Slice(st, 1, k) \o inputs
       IN  [error |-> "none", output |-> CellCall(c, memory),
            memory |-> memory]

(* Fault: the oldest step is not dropped.                                   *)
StreamingExternalStateKeepAll(c, k, inputs, state) ==
  IF Len(inputs) # 1
    THEN [error |-> "ValueError", output |-> << >>, memory |-> << >>,
          state |-> state]
  ELSE LET memory == Slice(state, 0, k) \o inputs
       IN  [error |-> "none", output |-> CellCall(c, memory),
            memory |-> memory, state |-> state]

(* Fault: the window is taken from the state the instance last returned,   *)
(* not from the state passed in.                                           *)
StreamingExternalStateStale(c, k, inputs, state) ==
  IF Len(inputs) # 1
    THEN [error |-> "ValueError", output |-> << >>, memory |-> << >>,
          state |-> state]
  ELSE LET used == IF output_state # << >> THEN output_state ELSE state
           memory == Slice(used, 1, k) \o inputs
       IN  [error |-> "none", output |-> CellCall(c, memory),
            memory |-> memory, state |-> state]

(* "state" is the state argument as the call leaves it: the slice and the  *)
(* concatenation make new tensors and the argument is never assigned.      *)
StreamingExternalState(c, k, inputs, state) ==
  IF Len(inputs) # 1
    THEN [error |-> "ValueError", output |-> << >>, memory |-> << >>,
          state |-> state]
  ELSE LET memory == Slice(state, 1, k) \o inputs
       IN  IF CellFits(c, memory)
             THEN [error |-> "none", output |-> CellCall(c, memory),
                   memory |-> memory, state |-> state]
             ELSE [error |-> "ValueError", output |-> << >>,
                   memory |-> << >>, state |-> state]

(* Python truth of pad_time_dim: False and None are false, a string true. *)
PadArgs == {"False", "causal", "same", "bogus"}

Truthy(pad) == pad # "False"

(* The padding arguments tried in a mode: the streaming calls never read   *)
(* pad_time_dim, so one false and one true value stand for all there.      *)
PadArgsFor(m) ==
  IF m \in NonStreamModes THEN PadArgs ELSE {"False", "causal"}

(* Fault: one zero step too many is padded.                                *)
NonStreamingInputsPadK(c, pad, k, inputs) ==
  IF Truthy(pad) /\ IsConv(c) THEN PadLeft(inputs, k) ELSE inputs

NonStreamingInputs(c, pad, k, inputs) ==
  IF Truthy(pad) /\ IsConv(c) THEN PadLeft(inputs, k - 1) ELSE inputs

NonStreaming(c, pad, k, inputs) ==
  LET padded == NonStreamingInputs(c, pad, k, inputs)
  IN  IF CellFits(c, padded)
        THEN [error |-> "none", output |-> CellCall(c, padded),
              window |-> padded]
        ELSE [error |-> "ValueError", output |-> << >>, window |-> << >>]

(* All tensors of n steps.                                                 *)
Tensors(n) == [1..n -> Values]

(* The buffers a caller may start an external-state stream from.           *)
StartBuffers(n) == {[i \in 1..n |-> v] : v \in Values}

(* No state accessor has been called yet.                                  *)
NotAccessed ==
  [layer |-> "none", accessor |-> "none", error |-> "none",
   returned |-> FALSE, value |-> << >>]

(* No get_config round trip has been made yet.                             *)
NoConfigs == [layer |-> "none"]

(* No ds_tc_resnet model has been made yet.                                *)
NoFlags == [padding |-> "none"]

(* The two callers of one internal-state instance.                         *)
Threads == {1, 2}

-----------------------------------------------------------------------------
Init ==
  /\ pc = "new"
  /\ cell = OtherCell("Flatten")
  /\ inference_batch_size = 1
  /\ mode = "TRAINING"
  /\ pad_time_dim = "False"
  /\ state_shape = << >>
  /\ kwargs = {}
  /\ effective_ksize_tdim = NoneK
  /\ input_shape = << >>
  /\ states = << >>
  /\ input_state = << >>
  /\ output_state = << >>
  /\ error = "none"
  /\ window = << >>
  /\ ret = << >>
  /\ caller_state = << >>
  /\ start_state = << >>
  /\ fed = << >>
  /\ outs = << >>
  /\ log = {}
  /\ calls = 0
  /\ layers = << >>
  /\ manual_states = << >>
  /\ auto_states = << >>
  /\ prev_auto_states = << >>
  /\ manual_outs = << >>
  /\ auto_outs = << >>
  /\ chain_fed = << >>
  /\ delay_pc = "new"
  /\ delay_mode = "TRAINING"
  /\ delay = 0
  /\ delay_state_shape = << >>
  /\ delay_states = << >>
  /\ delay_input_state = << >>
  /\ delay_output_state = << >>
  /\ delay_error = "none"
  /\ delay_ret = << >>
  /\ delay_window = << >>
  /\ delay_held = << >>
  /\ delay_fed = << >>
  /\ delay_outs = << >>
  /\ accessed = NotAccessed
  /\ configs = NoConfigs
  /\ twin_state = << >>
  /\ twin_outs = << >>
  /\ race_pc = [t \in Threads |-> "idle"]
  /\ race_in = [t \in Threads |-> << >>]
  /\ race_local = [t \in Threads |-> << >>]
  /\ race_order = << >>
  /\ net_pc = "new"
  /\ net_flags = NoFlags
  /\ net_wrappers = << >>
  /\ net_time = 0
  /\ net_error = "none"
  /\ stack = << >>
  /\ stack_pc = "new"
  /\ stack_error = "none"
  /\ stack_ret = << >>
  /\ stack_states = << >>
  /\ stack_outs = << >>
  /\ stack_fed = << >>

Construct(c, m, pad, ss, kw) ==
  /\ pc = "new"
  /\ cell' = c
  /\ mode' = m
  /\ pad_time_dim' = pad
  /\ state_shape' = ss
  /\ kwargs' = kw
  /\ error' = InitError(c, m, ss, kw)
  /\ pc' = IF error' = "none" THEN "constructed" ELSE "failed"
  /\ effective_ksize_tdim' = IF error' = "none" THEN InitKsize(c, ss) ELSE NoneK
  /\ UNCHANGED <<inference_batch_size, input_shape, states, input_state,
                 output_state, window, ret, caller_state, start_state,
                 fed, outs, pureVars, chainVars, delayVars,
                 accessVars, scenarioVars>>

Build(ishape) ==
  /\ pc = "constructed"
  /\ input_shape' = ishape
  /\ state_shape' = BuildStateShape(cell, mode, state_shape,
                                    inference_batch_size,
                                    effective_ksize_tdim, ishape)
  /\ error' = BuildError(mode, state_shape')
  /\ pc' = IF error' = "none" THEN "built" ELSE "failed"
  /\ states' = IF mode = "STREAM_INTERNAL_STATE_INFERENCE"
                 THEN ZeroStates(state_shape') ELSE states
  /\ IF mode = "STREAM_EXTERNAL_STATE_INFERENCE" /\ error' = "none"
       THEN \E start \in StartBuffers(state_shape'[2]) :
              /\ caller_state' = start
              /\ start_state' = start
       ELSE UNCHANGED <<caller_state, start_state>>
  /\ UNCHANGED <<cell, inference_batch_size, mode, pad_time_dim, kwargs,
                 effective_ksize_tdim, input_state, output_state, window,
                 ret, fed, outs, pureVars, chainVars, delayVars,
                 accessVars, scenarioVars>>

(* call in STREAM_INTERNAL_STATE_INFERENCE mode.                           *)
CallInternal(inputs) ==
  /\ pc = "built"
  /\ mode = "STREAM_INTERNAL_STATE_INFERENCE"
  /\ Len(fed) < MaxSteps
  /\ LET r == StreamingInternalState(cell, effective_ksize_tdim, inputs,
                                     states)
     IN  /\ error' = r.error
         /\ ret' = r.output
         /\ states' = r.memory
         /\ IF r.error = "none"
              THEN /\ window' = r.memory
                   /\ fed' = fed \o inputs
                   /\ outs' = Append(outs, r.output)
              ELSE UNCHANGED <<window, fed, outs>>
  /\ UNCHANGED <<pc, cell, inference_batch_size, mode, pad_time_dim,
                 state_shape, kwargs, effective_ksize_tdim, input_shape,
                 input_state, output_state, caller_state, start_state,
                 pureVars, chainVars, delayVars,
                 accessVars, scenarioVars>>

(* One pass of the driver loop over an external-state model: feed the      *)
(* step and the held state, keep the returned state for the next pass.     *)
DriverStep(inputs) ==
  /\ pc = "built"
  /\ mode = "STREAM_EXTERNAL_STATE_INFERENCE"
  /\ Len(fed) < MaxSteps
  /\ LET r == StreamingExternalState(cell, effective_ksize_tdim, inputs,
                                     caller_state)
     IN  /\ error' = r.error
         /\ ret' = r.output
         /\ IF r.error = "none"
              THEN /\ input_state' = caller_state
                   /\ output_state' = r.memory
                   /\ window' = r.memory
                   /\ caller_state' = output_state'
                   /\ fed' = fed \o inputs
                   /\ outs' = Append(outs, r.output)
              ELSE UNCHANGED <<input_state, output_state, window,
                               caller_state, fed, outs>>
  /\ UNCHANGED <<pc, cell, inference_batch_size, mode, pad_time_dim,
                 state_shape, kwargs, effective_ksize_tdim, input_shape,
                 states, start_state, pureVars, chainVars, delayVars,
                 accessVars, scenarioVars>>

(* call in TRAINING or NON_STREAM_INFERENCE mode on a whole sequence.      *)
CallNonStreaming(inputs) ==
  /\ pc = "built"
  /\ mode \in NonStreamModes
  /\ Len(inputs) = input_shape[2]
  /\ LET r == NonStreaming(cell, pad_time_dim, effective_ksize_tdim, inputs)
     IN  /\ error' = r.error
         /\ ret' = r.output
         /\ IF r.error = "none"
              THEN /\ window' = r.window
                   /\ fed' = inputs
              ELSE UNCHANGED <<window, fed>>
  /\ UNCHANGED <<pc, cell, inference_batch_size, mode, pad_time_dim,
                 state_shape, kwargs, effective_ksize_tdim, input_shape,
                 states, input_state, output_state, caller_state,
                 start_state, outs, pureVars, chainVars, delayVars,
                 accessVars, scenarioVars>>

Next ==
  \/ \E c \in Cells, m \in Modes, kw \in KwargsSets :
        \E ss \in StateShapeArgsFor(c), pad \in PadArgsFor(m) :
          Construct(c, m, pad, ss, kw)
  \/ \E t \in 1..MaxLen :
        Build(<<1, IF mode \in StreamModes THEN 1 ELSE t, 1>>)
  \/ \E inputs \in Tensors(1) \cup Tensors(2) : CallInternal(inputs)
  \/ \E inputs \in Tensors(1) \cup Tensors(2) : DriverStep(inputs)
  \/ \E n \in 1..MaxLen : \E inputs \in Tensors(n) : CallNonStreaming(inputs)

Spec == Init /\ [][Next]_vars

-----------------------------------------------------------------------------
(* External-state calls made by hand: the caller passes any state it       *)
(* holds (a start buffer or a state some earlier call returned), in any    *)
(* order, and keeps what each call returned.                               *)

HeldStates ==
  StartBuffers(effective_ksize_tdim)
    \cup {r.new_state : r \in {q \in log : q.error = "none"}}

CallExternal(inputs) ==
  /\ pc = "built"
  /\ mode = "STREAM_EXTERNAL_STATE_INFERENCE"
  /\ calls < MaxCalls
  /\ \E st \in HeldStates :
       LET r == StreamingExternalState(cell, effective_ksize_tdim, inputs, st)
       IN  /\ error' = r.error
           /\ ret' = r.output
           /\ IF r.error = "none"
                THEN /\ input_state' = st
                     /\ output_state' = r.memory
                     /\ window' = r.memory
                ELSE UNCHANGED <<input_state, output_state, window>>
           /\ log' = log \cup {[state |-> st, inputs |-> inputs,
                                 error |-> r.error, output |-> r.output,
                                 new_state |-> r.memory,
                                 state_after |-> r.state]}
  /\ calls' = calls + 1
  /\ UNCHANGED <<pc, cell, inference_batch_size, mode, pad_time_dim,
                 state_shape, kwargs, effective_ksize_tdim, input_shape,
                 states, caller_state, start_state, fed, outs, chainVars,
                 delayVars, accessVars, scenarioVars>>

PureNext ==
  \/ \E c \in Cells : \E ss \in StateShapeArgsFor(c) :
        Construct(c, "STREAM_EXTERNAL_STATE_INFERENCE", "False", ss, {})
  \/ Build(<<1, 1, 1>>)
  \/ \E inputs \in Tensors(1) \cup Tensors(2) : CallExternal(inputs)

SpecPure == Init /\ [][PureNext]_vars

-----------------------------------------------------------------------------
(* External-state calls fed a state that need not have the instance's      *)
(* state shape: one step fewer or one step more than the window length.    *)

StatesTried(k) ==
  UNION {StartBuffers(n) : n \in {j \in {k - 1, k, k + 1} : j >= 0}}

(* call with self.input_state fed the value st.                            *)
CallWithState(inputs, st) ==
  /\ pc = "built"
  /\ mode = "STREAM_EXTERNAL_STATE_INFERENCE"
  /\ input_state' = st
  /\ LET r == StreamingExternalState(cell, effective_ksize_tdim, inputs, st)
     IN  /\ error' = r.error
         /\ ret' = r.output
         /\ IF r.error = "none"
              THEN /\ output_state' = r.memory
                   /\ window' = r.memory
              ELSE UNCHANGED <<output_state, window>>
  /\ UNCHANGED <<pc, cell, inference_batch_size, mode, pad_time_dim,
                 state_shape, kwargs, effective_ksize_tdim, input_shape,
                 states, caller_state, start_state, fed, outs, pureVars,
                 chainVars, delayVars, accessVars, scenarioVars>>

StateNext ==
  \/ \E c \in Cells : \E ss \in StateShapeArgsFor(c) :
        Construct(c, "STREAM_EXTERNAL_STATE_INFERENCE", "False", ss, {})
  \/ Build(<<1, 1, 1>>)
  \/ \E inputs \in Tensors(1) \cup Tensors(2) :
        \E st \in StatesTried(effective_ksize_tdim) :
          CallWithState(inputs, st)

SpecState == Init /\ [][StateNext]_vars

-----------------------------------------------------------------------------
(* A chain of external-state instances, each feeding the next, run side by *)
(* side with its states threaded by hand through                            *)
(* _streaming_external_state and through the converted model: call on      *)
(* each instance, the states read with get_output_state and fed back by    *)
(* the driver loop.                                                         *)

ChainCells ==
  {c \in Cells : c.kind = "Conv2D" /\ c.strides = 1 /\ c.dilation_rate = 1}

Chains == UNION {[1..n -> ChainCells] : n \in 1..MaxChain}

Layer(c) ==
  [cell |-> c, mode |-> "STREAM_EXTERNAL_STATE_INFERENCE",
   effective_ksize_tdim |-> InitKsize(c, << >>),
   input_state |-> << >>, output_state |-> << >>]

GetInputState(l) ==
  IF l.mode = "STREAM_EXTERNAL_STATE_INFERENCE"
    THEN [error |-> "none", value |-> l.input_state]
    ELSE [error |-> "ValueError", value |-> << >>]

(* Fault: the accessor hands out the state that was fed in.                *)
GetOutputStateStale(l) ==
  IF l.mode = "STREAM_EXTERNAL_STATE_INFERENCE"
    THEN [error |-> "none", value |-> l.input_state]
    ELSE [error |-> "ValueError", value |-> << >>]

GetOutputState(l) ==
  IF l.mode = "STREAM_EXTERNAL_STATE_INFERENCE"
    THEN [error |-> "none", value |-> l.output_state]
    ELSE [error |-> "ValueError", value |-> << >>]

(* Stream.call in external-state mode.                                     *)
CallLayer(l, inputs) ==
  LET r == StreamingExternalState(l.cell, l.effective_ksize_tdim, inputs,
                                  l.input_state)
  IN  [layer |-> [l EXCEPT !.output_state = r.memory], output |-> r.output]

RECURSIVE RunModel(_, _, _)
RunModel(ls, i, x) ==
  IF i > Len(ls) THEN [layers |-> ls, output |-> x]
  ELSE LET r == CallLayer(ls[i], x)
       IN  RunModel([ls EXCEPT ![i] = r.layer], i + 1, r.output)

(* The converted model run once: the state inputs are the instances'       *)
(* get_input_state(), the state outputs their get_output_state(), in the   *)
(* order of the instances.                                                 *)
Predict(ls, x, sts) ==
  LET fedls == [i \in DOMAIN ls |-> [ls[i] EXCEPT !.input_state = sts[i]]]
      r == RunModel(fedls, 1, x)
  IN  [layers |-> r.layers, output |-> r.output,
       states |-> [i \in DOMAIN ls |-> GetOutputState(r.layers[i]).value]]

RECURSIVE RunManual(_, _, _, _)
RunManual(ls, sts, i, x) ==
  IF i > Len(ls) THEN [states |-> sts, output |-> x]
  ELSE LET r == StreamingExternalState(ls[i].cell,
                                       ls[i].effective_ksize_tdim, x, sts[i])
       IN  RunManual(ls, [sts EXCEPT ![i] = r.memory], i + 1, r.output)

ChainBuild(cs) ==
  /\ pc = "new"
  /\ layers = << >>
  /\ \A i \in DOMAIN cs :
       InitError(cs[i], "STREAM_EXTERNAL_STATE_INFERENCE", << >>, {}) = "none"
  /\ layers' = [i \in DOMAIN cs |-> Layer(cs[i])]
  /\ manual_states' = [i \in DOMAIN cs |-> Zeros(layers'[i].effective_ksize_tdim)]
  /\ auto_states' = manual_states'
  /\ prev_auto_states' = manual_states'
  /\ UNCHANGED <<pc, selfVars, callerVars, pureVars, manual_outs, auto_outs,
                 chain_fed, delayVars, accessVars, scenarioVars>>

ChainStep(x) ==
  /\ layers # << >>
  /\ Len(chain_fed) < MaxChainSteps
  /\ \A i \in DOMAIN layers : GetInputState(layers[i]).error = "none"
  /\ LET m == RunManual(layers, manual_states, 1, x)
         a == Predict(layers, x, auto_states)
     IN  /\ manual_states' = m.states
         /\ manual_outs' = Append(manual_outs, m.output)
         /\ layers' = a.layers
         /\ auto_outs' = Append(auto_outs, a.output)
         /\ prev_auto_states' = auto_states
         /\ auto_states' = a.states
  /\ chain_fed' = chain_fed \o x
  /\ UNCHANGED <<pc, selfVars, callerVars, pureVars, delayVars, accessVars,
                 scenarioVars>>

ChainNext ==
  \/ \E cs \in Chains : ChainBuild(cs)
  \/ \E x \in Tensors(1) : ChainStep(x)

SpecChain == Init /\ [][ChainNext]_vars

-----------------------------------------------------------------------------
(* Delay (layers/delay.py).  An attribute that was never assigned, and     *)
(* the empty list build assigns to input_state and output_state, are the   *)
(* empty sequence.                                                          *)

Delays == 0..MaxDelay

(* Input steps of a Delay are non-zero, so that a zero step in an output   *)
(* can only come out of the zero-initialised buffer.                       *)
DelayValues == {1, 2}

DelayTensors(n) == [1..n -> DelayValues]

(* x[:, -n:] on the time axis for n > 0: the last n steps, or all of x.    *)
SliceLast(x, n) == SubSeq(x, IF Len(x) > n THEN Len(x) - n + 1 ELSE 1, Len(x))

(* build, delay.py 49-58: state_shape is assigned in the internal-state    *)
(* branch only.                                                             *)
DelayBuildStateShape(m, d, ss, bs, ishape) ==
  IF d > 0 /\ m = "STREAM_INTERNAL_STATE_INFERENCE"
    THEN <<bs, d>> \o SubSeq(ishape, 3, Len(ishape))
    ELSE ss

(* build, delay.py 60-66: the external-state branch reads state_shape,     *)
(* which nothing has assigned.                                              *)
DelayBuildError(m, d, ss) ==
  IF d > 0 /\ m = "STREAM_EXTERNAL_STATE_INFERENCE" /\ ss = << >>
    THEN "AttributeError" ELSE "none"

(* Fault: the buffer is refilled from the call's inputs alone, so a call   *)
(* shorter than the delay forgets the steps held from earlier calls.       *)
DelayStreamingInternalStateForgets(d, inputs, st) ==
  LET memory == st \o inputs
  IN  [output |-> Slice(memory, 0, Len(inputs)),
       memory |-> SliceLast(Zeros(d) \o inputs, d), window |-> memory]

(* Fault: the newest steps are emitted, not the oldest.                    *)
DelayStreamingInternalStateNewest(d, inputs, st) ==
  LET memory == st \o inputs
  IN  [output |-> SliceLast(memory, Len(inputs)),
       memory |-> SliceLast(memory, d), window |-> memory]

(* Fault: the buffer keeps one step more than the delay.                   *)
DelayStreamingInternalStateKeepMore(d, inputs, st) ==
  LET memory == st \o inputs
  IN  [output |-> Slice(memory, 0, Len(inputs)),
       memory |-> SliceLast(memory, d + 1), window |-> memory]

DelayStreamingInternalState(d, inputs, st) ==
  LET memory == st \o inputs
  IN  [output |-> Slice(memory, 0, Len(inputs)),
       memory |-> SliceLast(memory, d), window |-> memory]

DelayStreamingExternalState(d, inputs, st) ==
  LET memory == st \o inputs
  IN  [output |-> Slice(memory, 0, Len(inputs)),
       memory |-> SliceLast(memory, d), window |-> memory]

(* Fault: the pass-through drops the first step.                           *)
DelayNonStreamingTail(inputs) == Tail(inputs)

DelayNonStreaming(inputs) == inputs

DelayGetInputState(l) ==
  IF l.mode = "STREAM_EXTERNAL_STATE_INFERENCE"
    THEN [error |-> "none", value |-> l.input_state]
    ELSE [error |-> "ValueError", value |-> << >>]

(* Fault: outside the streaming modes the accessor hands out what it has.  *)
DelayGetOutputStateLenient(l) ==
  IF l.mode \in StreamModes
    THEN IF l.mode = "STREAM_EXTERNAL_STATE_INFERENCE"
           THEN [error |-> "none", value |-> l.output_state]
           ELSE [error |-> "ValueError", value |-> << >>]
    ELSE [error |-> "none", value |-> l.output_state]

DelayGetOutputState(l) ==
  IF l.mode = "STREAM_EXTERNAL_STATE_INFERENCE"
    THEN [error |-> "none", value |-> l.output_state]
    ELSE [error |-> "ValueError", value |-> << >>]

(* Delay.__init__; a caller that threads the state by hand starts from the *)
(* zero buffer of delay steps.                                             *)
DelayConstruct(m, d) ==
  /\ delay_pc = "new"
  /\ delay_pc' = "constructed"
  /\ delay_mode' = m
  /\ delay' = d
  /\ delay_held' = IF m = "STREAM_EXTERNAL_STATE_INFERENCE"
                     THEN Zeros(d) ELSE << >>
  /\ UNCHANGED <<delay_state_shape, delay_states, delay_input_state,
                 delay_output_state, delay_error, delay_ret, delay_window,
                 delay_fed, delay_outs>>
  /\ UNCHANGED <<pc, selfVars, callerVars, pureVars, chainVars, accessVars,
                 scenarioVars>>

DelayBuild(ishape) ==
  /\ delay_pc = "constructed"
  /\ delay_input_state' = << >>
  /\ delay_output_state' = << >>
  /\ delay_state_shape' = DelayBuildStateShape(delay_mode, delay,
                                               delay_state_shape, 1, ishape)
  /\ delay_error' = DelayBuildError(delay_mode, delay, delay_state_shape')
  /\ delay_pc' = IF delay_error' = "none" THEN "built" ELSE "failed"
  /\ delay_states' = IF delay > 0
                          /\ delay_mode = "STREAM_INTERNAL_STATE_INFERENCE"
                       THEN Zeros(delay_state_shape'[2]) ELSE delay_states
  /\ UNCHANGED <<delay_mode, delay, delay_ret, delay_window, delay_held,
                 delay_fed, delay_outs>>
  /\ UNCHANGED <<pc, selfVars, callerVars, pureVars, chainVars, accessVars,
                 scenarioVars>>

(* Delay.call on a built instance.                                         *)
DelayCall(inputs) ==
  /\ delay_pc = "built"
  /\ Len(delay_fed) + Len(inputs) <= MaxDelaySteps
  /\ IF delay = 0
       THEN /\ delay_ret' = inputs
            /\ UNCHANGED <<delay_states, delay_output_state, delay_window>>
     ELSE IF delay_mode = "STREAM_INTERNAL_STATE_INFERENCE"
       THEN LET r == DelayStreamingInternalState(delay, inputs, delay_states)
            IN  /\ delay_ret' = r.output
                /\ delay_states' = r.memory
                /\ delay_window' = r.window
                /\ UNCHANGED delay_output_state
     ELSE IF delay_mode = "STREAM_EXTERNAL_STATE_INFERENCE"
       THEN LET r == DelayStreamingExternalState(delay, inputs,
                                                 delay_input_state)
            IN  /\ delay_ret' = r.output
                /\ delay_output_state' = r.memory
                /\ delay_window' = r.window
                /\ UNCHANGED delay_states
     ELSE /\ delay_ret' = DelayNonStreaming(inputs)
          /\ UNCHANGED <<delay_states, delay_output_state, delay_window>>
  /\ delay_error' = "none"
  /\ delay_fed' = delay_fed \o inputs
  /\ delay_outs' = Append(delay_outs, delay_ret')
  /\ UNCHANGED <<delay_pc, delay_mode, delay, delay_state_shape,
                 delay_input_state, delay_held>>
  /\ UNCHANGED <<pc, selfVars, callerVars, pureVars, chainVars, accessVars,
                 scenarioVars>>

(* _streaming_external_state called by hand on the state the caller holds, *)
(* the returned state kept for the next call.                              *)
DelayExternalStep(inputs) ==
  /\ delay_pc \in {"constructed", "failed"}
  /\ delay_mode = "STREAM_EXTERNAL_STATE_INFERENCE"
  /\ delay > 0
  /\ Len(delay_fed) + Len(inputs) <= MaxDelaySteps
  /\ LET r == DelayStreamingExternalState(delay, inputs, delay_held)
     IN  /\ delay_ret' = r.output
         /\ delay_held' = r.memory
         /\ delay_window' = r.window
  /\ delay_fed' = delay_fed \o inputs
  /\ delay_outs' = Append(delay_outs, delay_ret')
  /\ UNCHANGED <<delay_pc, delay_mode, delay, delay_state_shape,
                 delay_states, delay_input_state, delay_output_state,
                 delay_error>>
  /\ UNCHANGED <<pc, selfVars, callerVars, pureVars, chainVars, accessVars,
                 scenarioVars>>

DelayNext ==
  \/ \E m \in Modes, d \in Delays : DelayConstruct(m, d)
  \/ \E t \in 1..MaxDelayLen : DelayBuild(<<1, t, 1>>)
  \/ \E n \in 1..MaxDelayLen : \E inputs \in DelayTensors(n) :
        DelayCall(inputs)
  \/ \E n \in 1..MaxDelayLen : \E inputs \in DelayTensors(n) :
        DelayExternalStep(inputs)

SpecDelay == Init /\ [][DelayNext]_vars

-----------------------------------------------------------------------------
(* The state accessors of a Stream or a Delay, called at any time after    *)
(* construction.  One layer is looked at a time: a Stream and a Delay      *)
(* share no state.                                                          *)

AccessCells ==
  {c \in Cells : IsConv(c) => (c.dilation_rate = 1 /\ c.strides = 1
                                 /\ c.weights = [j \in 1..c.kernel_size |-> 1])}

StreamSelf ==
  [mode |-> mode, input_state |-> input_state, output_state |-> output_state]

DelaySelf ==
  [mode |-> delay_mode, input_state |-> delay_input_state,
   output_state |-> delay_output_state]

Accessors == {"get_input_state", "get_output_state"}

(* What an accessor call leaves with its caller.                           *)
Accessed(layer, accessor, r) ==
  [layer |-> layer, accessor |-> accessor, error |-> r.error,
   returned |-> (r.error = "none"), value |-> r.value]

(* Fault: an accessor called in a mode it does not serve switches the      *)
(* instance to the mode it serves instead of raising.                      *)
AccessStreamSwitchesMode(accessor) ==
  /\ pc \in {"constructed", "built"}
  /\ mode' = IF mode \in {"STREAM_EXTERNAL_STATE_INFERENCE",
                          "STREAM_INTERNAL_STATE_INFERENCE"}
               THEN mode ELSE "STREAM_EXTERNAL_STATE_INFERENCE"
  /\ accessed' =
       Accessed("Stream", accessor,
                IF accessor = "get_input_state"
                  THEN GetInputState([StreamSelf EXCEPT !.mode = mode'])
                  ELSE GetOutputState([StreamSelf EXCEPT !.mode = mode']))
  /\ UNCHANGED <<pc, cell, inference_batch_size, pad_time_dim, state_shape,
                 kwargs, effective_ksize_tdim, input_shape, states,
                 input_state, output_state, callerVars, pureVars, chainVars,
                 delayVars, scenarioVars>>

(* In external-state mode input_state and output_state exist only once     *)
(* build has assigned them.                                                *)
AccessStream(accessor) ==
  /\ pc \in {"constructed", "built"}
  /\ accessed' =
       Accessed("Stream", accessor,
                IF mode = "STREAM_EXTERNAL_STATE_INFERENCE"
                     /\ pc = "constructed"
                  THEN [error |-> "AttributeError", value |-> << >>]
                ELSE IF accessor = "get_input_state"
                  THEN GetInputState(StreamSelf)
                  ELSE GetOutputState(StreamSelf))
  /\ UNCHANGED <<pc, selfVars, callerVars, pureVars, chainVars, delayVars,
                 scenarioVars>>

AccessDelay(accessor) ==
  /\ delay_pc \in {"constructed", "built", "failed"}
  /\ accessed' =
       Accessed("Delay", accessor,
                IF delay_mode = "STREAM_EXTERNAL_STATE_INFERENCE"
                     /\ delay_pc = "constructed"
                  THEN [error |-> "AttributeError", value |-> << >>]
                ELSE IF accessor = "get_input_state"
                  THEN DelayGetInputState(DelaySelf)
                  ELSE DelayGetOutputState(DelaySelf))
  /\ UNCHANGED <<pc, selfVars, callerVars, pureVars, chainVars, delayVars,
                 scenarioVars>>

AccessNext ==
  \/ \E c \in AccessCells, m \in Modes : \E ss \in StateShapeArgsFor(c) :
        delay_pc = "new" /\ Construct(c, m, "False", ss, {})
  \/ \E t \in 1..MaxLen :
        Build(<<1, IF mode \in StreamModes THEN 1 ELSE t, 1>>)
  \/ \E inputs \in Tensors(1) : CallInternal(inputs)
  \/ \E inputs \in Tensors(1) : DriverStep(inputs)
  \/ \E n \in 1..MaxLen : \E inputs \in Tensors(n) : CallNonStreaming(inputs)
  \/ \E m \in Modes, d \in Delays : pc = "new" /\ DelayConstruct(m, d)
  \/ \E t \in 1..MaxDelayLen : DelayBuild(<<1, t, 1>>)
  \/ \E n \in 1..MaxDelayLen : \E inputs \in DelayTensors(n) :
        DelayCall(inputs)
  \/ \E n \in 1..MaxDelayLen : \E inputs \in DelayTensors(n) :
        DelayExternalStep(inputs)
  \/ \E accessor \in Accessors : AccessStream(accessor)
  \/ \E accessor \in Accessors : AccessDelay(accessor)

SpecAccess == Init /\ [][AccessNext]_vars

-----------------------------------------------------------------------------
(* A stack of Stream-wrapped convolutions (stream_test.py conv_model):     *)
(* built in TRAINING mode with causal padding, run on whole sequences,     *)
(* then converted to STREAM_INTERNAL_STATE_INFERENCE mode, which           *)
(* constructs every wrapper anew in that mode, and fed one step at a time. *)

StackCells ==
  {c \in Cells : c.kind = "Conv2D" /\ c.kernel_size \in {2, 3}
                   /\ c.weights = [j \in 1..c.kernel_size |-> j]}

Stacks == UNION {[1..n -> StackCells] : n \in 1..MaxStack}

(* The error of the first wrapper whose construction in mode m raises.     *)
StackInitError(cs, m) ==
  LET bad == {i \in DOMAIN cs : InitError(cs[i], m, << >>, {}) # "none"}
  IN  IF bad = {} THEN "none"
      ELSE InitError(cs[CHOOSE i \in bad : \A j \in bad : i <= j], m,
                     << >>, {})

RECURSIVE StackNonStreaming(_, _, _, _)
StackNonStreaming(cs, pad, i, x) ==
  IF i > Len(cs) THEN [error |-> "none", output |-> x]
  ELSE LET r == NonStreaming(cs[i], pad, InitKsize(cs[i], << >>), x)
       IN  IF r.error # "none" THEN [error |-> r.error, output |-> << >>]
           ELSE StackNonStreaming(cs, pad, i + 1, r.output)

RECURSIVE StackStreaming(_, _, _, _)
StackStreaming(cs, sts, i, x) ==
  IF i > Len(cs) THEN [error |-> "none", states |-> sts, output |-> x]
  ELSE LET r == StreamingInternalState(cs[i], InitKsize(cs[i], << >>), x,
                                       sts[i])
       IN  IF r.error # "none"
             THEN [error |-> r.error, states |-> sts, output |-> << >>]
             ELSE StackStreaming(cs, [sts EXCEPT ![i] = r.memory], i + 1,
                                 r.output)

StackBuild(cs) ==
  /\ stack_pc = "new"
  /\ stack' = cs
  /\ stack_error' = StackInitError(cs, "TRAINING")
  /\ stack_pc' = IF stack_error' = "none" THEN "built" ELSE "failed"
  /\ UNCHANGED <<stack_ret, stack_states, stack_outs, stack_fed>>
  /\ UNCHANGED <<pc, selfVars, callerVars, pureVars, chainVars, delayVars,
                 accessVars, configVars, twinVars, raceVars,
                 resnetVars>>

StackPredict(x) ==
  /\ stack_pc = "built"
  /\ LET r == StackNonStreaming(stack, "causal", 1, x)
     IN  /\ stack_error' = r.error
         /\ stack_ret' = r.output
  /\ UNCHANGED <<stack, stack_pc, stack_states, stack_outs, stack_fed>>
  /\ UNCHANGED <<pc, selfVars, callerVars, pureVars, chainVars, delayVars,
                 accessVars, configVars, twinVars, raceVars,
                 resnetVars>>

(* The converted model is a new model, which has returned nothing yet; a   *)
(* conversion that raises leaves the model at hand.                        *)
StackConvert ==
  /\ stack_pc = "built"
  /\ stack_error' = StackInitError(stack, "STREAM_INTERNAL_STATE_INFERENCE")
  /\ IF stack_error' = "none"
       THEN /\ stack_pc' = "streaming"
            /\ stack_ret' = << >>
            /\ stack_states' =
                 [i \in DOMAIN stack |->
                    ZeroStates(BuildStateShape(
                      stack[i], "STREAM_INTERNAL_STATE_INFERENCE", << >>, 1,
                      InitKsize(stack[i], << >>), <<1, 1, 1>>))]
       ELSE /\ stack_pc' = "failed"
            /\ UNCHANGED <<stack_ret, stack_states>>
  /\ UNCHANGED <<stack, stack_outs, stack_fed>>
  /\ UNCHANGED <<pc, selfVars, callerVars, pureVars, chainVars, delayVars,
                 accessVars, configVars, twinVars, raceVars,
                 resnetVars>>

StackStep(x) ==
  /\ stack_pc = "streaming"
  /\ Len(stack_fed) < MaxStackSteps
  /\ LET r == StackStreaming(stack, stack_states, 1, x)
     IN  /\ stack_error' = r.error
         /\ stack_states' = r.states
         /\ IF r.error = "none"
              THEN /\ stack_outs' = Append(stack_outs, r.output)
                   /\ stack_fed' = stack_fed \o x
              ELSE UNCHANGED <<stack_outs, stack_fed>>
  /\ UNCHANGED <<stack, stack_pc, stack_ret>>
  /\ UNCHANGED <<pc, selfVars, callerVars, pureVars, chainVars, delayVars,
                 accessVars, configVars, twinVars, raceVars,
                 resnetVars>>

StackNext ==
  \/ \E cs \in Stacks : StackBuild(cs)
  \/ \E n \in 1..MaxLen : \E x \in Tensors(n) : StackPredict(x)
  \/ StackConvert
  \/ \E x \in Tensors(1) : StackStep(x)

SpecStack == Init /\ [][StackNext]_vars

-----------------------------------------------------------------------------
(* get_config, and an instance constructed from the config it returned     *)
(* (the keys the base Layer adds are keyword arguments the base Layer      *)
(* takes back).                                                             *)

(* Stream.get_config: the fields it copies into the config.                *)
GetConfig(l) ==
  [inference_batch_size |-> l.inference_batch_size, mode |-> l.mode,
   pad_time_dim |-> l.pad_time_dim, cell |-> l.cell,
   state_shape |-> l.state_shape]

(* Fault: the state shape given to __init__ is not kept.                   *)
StreamInitDropsStateShape(c, bs, m, pad, ss, kw) ==
  [error |-> InitError(c, m, ss, kw), cell |-> c,
   inference_batch_size |-> bs, mode |-> m, pad_time_dim |-> pad,
   state_shape |-> << >>,
   effective_ksize_tdim |-> IF InitError(c, m, ss, kw) = "none"
                              THEN InitKsize(c, ss) ELSE NoneK]

(* Stream.__init__: what it raises and the fields it leaves.               *)
StreamInit(c, bs, m, pad, ss, kw) ==
  [error |-> InitError(c, m, ss, kw), cell |-> c,
   inference_batch_size |-> bs, mode |-> m, pad_time_dim |-> pad,
   state_shape |-> ss,
   effective_ksize_tdim |-> IF InitError(c, m, ss, kw) = "none"
                              THEN InitKsize(c, ss) ELSE NoneK]

(* A Stream constructed with the config as its keyword arguments.          *)
FromConfig(cfg) ==
  StreamInit(cfg.cell, cfg.inference_batch_size, cfg.mode, cfg.pad_time_dim,
             cfg.state_shape, {})

StreamFields ==
  [cell |-> cell, inference_batch_size |-> inference_batch_size,
   mode |-> mode, pad_time_dim |-> pad_time_dim, state_shape |-> state_shape]

DelayGetConfig(l) ==
  [mode |-> l.mode, delay |-> l.delay,
   inference_batch_size |-> l.inference_batch_size]

DelayInit(m, d, bs) ==
  [error |-> "none", mode |-> m, delay |-> d, inference_batch_size |-> bs]

(* A Delay constructed with the config as its keyword arguments.           *)
DelayFromConfig(cfg) ==
  DelayInit(cfg.mode, cfg.delay, cfg.inference_batch_size)

DelayFields ==
  [mode |-> delay_mode, delay |-> delay, inference_batch_size |-> 1]

(* What a round trip leaves with its caller: the config, what constructing *)
(* from it raised, the new instance and the new instance's config.         *)
RoundTrip(layer, cfg, new, newcfg) ==
  [layer |-> layer, config |-> cfg, error |-> new.error, clone |-> new,
   clone_config |-> newcfg]

StreamRoundTrip ==
  /\ pc \in {"constructed", "built"}
  /\ LET cfg == GetConfig(StreamFields)
         new == FromConfig(cfg)
     IN  configs' = RoundTrip("Stream", cfg, new, GetConfig(new))
  /\ UNCHANGED <<pc, selfVars, callerVars, pureVars, chainVars, delayVars,
                 accessVars, twinVars, raceVars, stackVars,
                 resnetVars>>

DelayRoundTrip ==
  /\ delay_pc \in {"constructed", "built", "failed"}
  /\ LET cfg == DelayGetConfig(DelayFields)
         new == DelayFromConfig(cfg)
     IN  configs' = RoundTrip("Delay", cfg, new, DelayGetConfig(new))
  /\ UNCHANGED <<pc, selfVars, callerVars, pureVars, chainVars, delayVars,
                 accessVars, twinVars, raceVars, stackVars,
                 resnetVars>>

(* The inputs of the calls made here: what a call does to the mode and to  *)
(* the config depends on the length of its input, not on its values.       *)
ConfigInputs(n) == [i \in 1..n |-> 1]

(* Every operation of one Stream or of one Delay: construction, build,     *)
(* calls that succeed and calls that raise, the state accessors and        *)
(* get_config.                                                              *)
ConfigNext ==
  \/ \E c \in AccessCells, m \in Modes :
        \E ss \in StateShapeArgsFor(c), pad \in PadArgsFor(m) :
          delay_pc = "new" /\ Construct(c, m, pad, ss, {})
  \/ \E t \in 1..MaxLen :
        Build(<<1, IF mode \in StreamModes THEN 1 ELSE t, 1>>)
  \/ \E n \in {1, 2} : CallInternal(ConfigInputs(n))
  \/ \E n \in {1, 2} : DriverStep(ConfigInputs(n))
  \/ \E n \in 1..MaxLen : CallNonStreaming(ConfigInputs(n))
  \/ \E m \in Modes, d \in Delays : pc = "new" /\ DelayConstruct(m, d)
  \/ \E t \in 1..MaxDelayLen : DelayBuild(<<1, t, 1>>)
  \/ \E n \in 1..MaxDelayLen : DelayCall(ConfigInputs(n))
  \/ \E n \in 1..MaxDelayLen : DelayExternalStep(ConfigInputs(n))
  \/ \E accessor \in Accessors : AccessStream(accessor)
  \/ \E accessor \in Accessors : AccessDelay(accessor)
  \/ StreamRoundTrip
  \/ DelayRoundTrip

SpecConfig == Init /\ [][ConfigNext]_vars

-----------------------------------------------------------------------------
(* Construction and build of every cell in every mode, and the second      *)
(* wrapper of the flow build's comment describes: constructed in a         *)
(* streaming mode from the config of a wrapper built in a non-streaming    *)
(* mode, so with the state shape that build recorded.  The variables then  *)
(* hold the second wrapper; configs keeps the config it was made from.     *)

ConstructFromRecorded(m) ==
  /\ pc = "built"
  /\ mode \in NonStreamModes
  /\ m \in StreamModes
  /\ LET cfg == [GetConfig(StreamFields) EXCEPT !.mode = m]
         new == FromConfig(cfg)
     IN  /\ configs' = RoundTrip("Stream", cfg, new, GetConfig(new))
         /\ cell' = new.cell
         /\ mode' = new.mode
         /\ pad_time_dim' = new.pad_time_dim
         /\ state_shape' = new.state_shape
         /\ effective_ksize_tdim' = new.effective_ksize_tdim
         /\ error' = new.error
         /\ pc' = IF new.error = "none" THEN "constructed" ELSE "failed"
  /\ input_shape' = << >>
  /\ states' = << >>
  /\ UNCHANGED <<inference_batch_size, kwargs, input_state, output_state,
                 window, ret, caller_state, start_state, fed, outs, pureVars,
                 chainVars, delayVars, accessVars, twinVars, raceVars,
                 stackVars,
                 resnetVars>>

BuildNext ==
  \/ \E c \in Cells, m \in Modes :
        \E ss \in StateShapeArgsFor(c), pad \in PadArgsFor(m) :
          Construct(c, m, pad, ss, {})
  \/ \E t \in 1..MaxLen :
        Build(<<1, IF mode \in StreamModes THEN 1 ELSE t, 1>>)
  \/ \E m \in StreamModes : ConstructFromRecorded(m)

SpecBuild == Init /\ [][BuildNext]_vars

-----------------------------------------------------------------------------
(* An internal-state wrapper and an external-state wrapper of the same     *)
(* cell, run side by side.  The variables of the instance hold the         *)
(* internal-state one; of its twin only what differs is kept: the state    *)
(* its caller holds (twin_state) and the outputs it returned (twin_outs).  *)

(* The twin is constructed with the same arguments in external-state mode  *)
(* and built; its caller starts from the zero buffer of its state shape.   *)
TwinStart ==
  /\ pc = "built"
  /\ mode = "STREAM_INTERNAL_STATE_INFERENCE"
  /\ twin_state = << >> /\ fed = << >>
  /\ InitError(cell, "STREAM_EXTERNAL_STATE_INFERENCE", state_shape, kwargs)
       = "none"
  /\ LET ss == BuildStateShape(cell, "STREAM_EXTERNAL_STATE_INFERENCE",
                               state_shape, inference_batch_size,
                               InitKsize(cell, state_shape), input_shape)
     IN  /\ BuildError("STREAM_EXTERNAL_STATE_INFERENCE", ss) = "none"
         /\ twin_state' = Zeros(ss[2])
  /\ UNCHANGED <<pc, selfVars, callerVars, pureVars, chainVars, delayVars,
                 accessVars, configVars, twin_outs, raceVars, stackVars,
                 resnetVars>>

(* The same one-step input is given to both: the internal-state call       *)
(* updates its weight, the external-state call gets the state its caller   *)
(* holds and the caller keeps the state it returns.                        *)
TwinStep(inputs) ==
  /\ pc = "built"
  /\ mode = "STREAM_INTERNAL_STATE_INFERENCE"
  /\ twin_state # << >>
  /\ Len(fed) < MaxSteps
  /\ LET r == StreamingInternalState(cell, effective_ksize_tdim, inputs,
                                     states)
         t == StreamingExternalState(cell, InitKsize(cell, state_shape),
                                     inputs, twin_state)
     IN  /\ error' = r.error
         /\ ret' = r.output
         /\ states' = r.memory
         /\ IF r.error = "none"
              THEN /\ window' = r.memory
                   /\ fed' = fed \o inputs
                   /\ outs' = Append(outs, r.output)
              ELSE UNCHANGED <<window, fed, outs>>
         /\ IF t.error = "none"
              THEN /\ twin_state' = t.memory
                   /\ twin_outs' = Append(twin_outs, t.output)
              ELSE UNCHANGED <<twin_state, twin_outs>>
  /\ UNCHANGED <<pc, cell, inference_batch_size, mode, pad_time_dim,
                 state_shape, kwargs, effective_ksize_tdim, input_shape,
                 input_state, output_state, caller_state, start_state,
                 pureVars, chainVars, delayVars, accessVars, configVars,
                 raceVars, stackVars,
                 resnetVars>>

TwinNext ==
  \/ \E c \in Cells : \E ss \in StateShapeArgsFor(c) :
        Construct(c, "STREAM_INTERNAL_STATE_INFERENCE", "False", ss, {})
  \/ Build(<<1, 1, 1>>)
  \/ TwinStart
  \/ \E inputs \in Tensors(1) : TwinStep(inputs)

SpecTwin == Init /\ [][TwinNext]_vars

-----------------------------------------------------------------------------
(* Two threads calling one built internal-state instance.  The call reads  *)
(* the weight when it forms memory (stream.py 184-186) and writes it with  *)
(* states.assign (188); nothing holds the weight between the two, so the   *)
(* steps of two calls may interleave.  race_order lists them as they       *)
(* happen.                                                                  *)

(* The step a thread feeds: tagged, so that it is told from the other      *)
(* thread's and from every step fed before.                                *)
RaceStep(t) == <<1 + t>>

(* memory = concat(self.states[:, 1:k], inputs): the read.                 *)
RaceRead(t) ==
  /\ pc = "built"
  /\ mode = "STREAM_INTERNAL_STATE_INFERENCE"
  /\ race_pc[t] = "idle"
  /\ race_in' = [race_in EXCEPT ![t] = RaceStep(t)]
  /\ race_order' = Append(race_order, <<t, "read">>)
  /\ IF states = << >>
       THEN /\ race_pc' = [race_pc EXCEPT ![t] = "failed"]
            /\ error' = "IndexError"
            /\ UNCHANGED race_local
       ELSE /\ race_pc' = [race_pc EXCEPT ![t] = "read"]
            /\ race_local' =
                 [race_local EXCEPT
                    ![t] = Slice(states, 1, effective_ksize_tdim)
                             \o RaceStep(t)]
            /\ UNCHANGED error
  /\ UNCHANGED <<pc, selfVars, window, ret, caller_state, start_state, fed,
                 outs, pureVars, chainVars, delayVars, accessVars,
                 configVars, twinVars, stackVars,
                 resnetVars>>

(* Fault: the assignment forms its value from the weight as it is now.     *)
RaceWriteRereads(t) ==
  /\ race_pc[t] = "read"
  /\ race_pc' = [race_pc EXCEPT ![t] = "done"]
  /\ race_order' = Append(race_order, <<t, "write">>)
  /\ states' = Slice(states, 1, effective_ksize_tdim) \o race_in[t]
  /\ window' = states'
  /\ ret' = CellCall(cell, states')
  /\ outs' = Append(outs, ret')
  /\ fed' = fed \o race_in[t]
  /\ error' = "none"
  /\ UNCHANGED <<pc, cell, inference_batch_size, mode, pad_time_dim,
                 state_shape, kwargs, effective_ksize_tdim, input_shape,
                 input_state, output_state, caller_state, start_state,
                 race_in, race_local, pureVars, chainVars, delayVars,
                 accessVars, configVars, twinVars, stackVars,
                 resnetVars>>

(* self.states.assign(memory), then the cell on memory: the write.         *)
RaceWrite(t) ==
  /\ race_pc[t] = "read"
  /\ race_pc' = [race_pc EXCEPT ![t] = "done"]
  /\ race_order' = Append(race_order, <<t, "write">>)
  /\ states' = race_local[t]
  /\ window' = race_local[t]
  /\ ret' = CellCall(cell, race_local[t])
  /\ outs' = Append(outs, ret')
  /\ fed' = fed \o race_in[t]
  /\ error' = "none"
  /\ UNCHANGED <<pc, cell, inference_batch_size, mode, pad_time_dim,
                 state_shape, kwargs, effective_ksize_tdim, input_shape,
                 input_state, output_state, caller_state, start_state,
                 race_in, race_local, pureVars, chainVars, delayVars,
                 accessVars, configVars, twinVars, stackVars,
                 resnetVars>>

RaceNext ==
  \/ \E c \in Cells : \E ss \in StateShapeArgsFor(c) :
        Construct(c, "STREAM_INTERNAL_STATE_INFERENCE", "False", ss, {})
  \/ Build(<<1, 1, 1>>)
  \/ \E inputs \in Tensors(1) : race_order = << >> /\ CallInternal(inputs)
  \/ \E t \in Threads : RaceRead(t)
  \/ \E t \in Threads : RaceWrite(t)

SpecRace == Init /\ [][RaceNext]_vars

-----------------------------------------------------------------------------
(* ds_tc_resnet.model: the Stream wrappers it creates, in training mode,   *)
(* and the same wrappers constructed again in a streaming mode.  Of each   *)
(* tensor only the time extent is followed; the number of filters is not   *)
(* on the time axis and is left out of the cells.                          *)

DepthwiseCell(kernel_size, stride, dilation) ==
  [kind |-> "DepthwiseConv2D", kernel_size |-> kernel_size,
   dilation_rate |-> dilation, strides |-> stride, pool_size |-> 0,
   weights |-> [j \in 1..kernel_size |-> 1]]

(* Conv2D(filters, kernel_size=1): strides and dilation by default 1.      *)
PointwiseCell ==
  [kind |-> "Conv2D", kernel_size |-> 1, dilation_rate |-> 1, strides |-> 1,
   pool_size |-> 0, weights |-> <<1>>]

(* AveragePooling2D(pool_size=net.shape[1:3], strides=1).                  *)
DecoderCell(time) ==
  [kind |-> "AveragePooling2D", kernel_size |-> 0, dilation_rate |-> 0,
   strides |-> 1, pool_size |-> time, weights |-> << >>]

(* stream.Stream(cell=..., pad_time_dim=...): mode is TRAINING by default. *)
Wrapper(c, pad) == [cell |-> c, pad_time_dim |-> pad]

(* The time extent of what a convolution wrapper returns in training mode  *)
(* for an input of t steps: the input as _non_streaming pads it, then the  *)
(* output length of the cell's 'valid' convolution.                        *)
TimeAfter(w, t) ==
  OutLen(Len(NonStreamingInputs(w.cell, w.pad_time_dim,
                                InitKsize(w.cell, << >>), Zeros(t))),
         InitKsize(w.cell, << >>), w.cell.strides)

(* The DepthwiseConv1D / Conv1D 1x1 pairs of a block: range(repeat - 1)    *)
(* pairs in the loop and one after it.                                     *)
RECURSIVE BlockPairs(_, _, _, _, _, _)
BlockPairs(n, t, kernel_size, dilation, stride, padding) ==
  IF n = 0 THEN [wrappers |-> << >>, time |-> t]
  ELSE LET dw == Wrapper(DepthwiseCell(kernel_size, stride, dilation), padding)
           pw == Wrapper(PointwiseCell, padding)
           t2 == TimeAfter(pw, TimeAfter(dw, t))
           rest == BlockPairs(n - 1, t2, kernel_size, dilation, stride,
                              padding)
       IN  [wrappers |-> <<dw, pw>> \o rest.wrappers, time |-> rest.time]

(* resnet_block.  The residual branch is a 1x1 convolution of the block's  *)
(* input; Add takes inputs of one shape only.                              *)
ResnetBlock(t, repeat, kernel_size, dilation, stride, residual, padding) ==
  IF padding \notin {"same", "causal"}
    THEN [error |-> "ValueError", wrappers |-> << >>, time |-> t]
  ELSE LET main == BlockPairs(IF repeat > 1 THEN repeat ELSE 1, t,
                              kernel_size, dilation, stride, padding)
           res == Wrapper(PointwiseCell, padding)
       IN  IF residual = 0
             THEN [error |-> "none", wrappers |-> main.wrappers,
                   time |-> main.time]
           ELSE IF TimeAfter(res, t) # main.time
             THEN [error |-> "ValueError",
                   wrappers |-> Append(main.wrappers, res), time |-> t]
           ELSE [error |-> "none", wrappers |-> Append(main.wrappers, res),
                 time |-> main.time]

(* The encoder loop of model over the blocks from the i-th on.             *)
RECURSIVE Encoder(_, _, _)
Encoder(flags, i, t) ==
  IF i > Len(flags.ds_filters)
    THEN [error |-> "none", wrappers |-> << >>, time |-> t]
  ELSE LET b == ResnetBlock(t, flags.ds_repeat[i], flags.ds_kernel_size[i],
                            flags.ds_dilation[i], flags.ds_stride[i],
                            flags.ds_residual[i], flags.padding)
       IN  IF b.error # "none" THEN b
           ELSE LET rest == Encoder(flags, i + 1, b.time)
                IN  [error |-> rest.error,
                     wrappers |-> b.wrappers \o rest.wrappers,
                     time |-> rest.time]

(* model(flags): the length check, the encoder, the decoder's pooling over *)
(* the whole time extent of the encoder's output.                          *)
ModelWrappers(flags) ==
  IF \E l \in {flags.ds_repeat, flags.ds_kernel_size, flags.ds_stride,
                flags.ds_dilation, flags.ds_residual} :
       Len(flags.ds_filters) # Len(l)
    THEN [error |-> "ValueError", wrappers |-> << >>, time |-> 0]
  ELSE LET e == Encoder(flags, 1, flags.time_size)
       IN  IF e.error # "none" THEN e
           ELSE [error |-> "none",
                 wrappers |-> Append(e.wrappers,
                                     Wrapper(DecoderCell(e.time), "False")),
                 time |-> e.time]

(* The flags tried: up to MaxBlocks blocks, the smallest and the largest   *)
(* kernel, stride and dilation, one or two repeats, with and without the   *)
(* residual branch; a filter list as long as the others or one longer.     *)
Paddings == {"same", "causal", "bogus"}

BlockFlags ==
  [repeat : {1, 2}, kernel_size : {1, MaxKernel}, stride : {1, MaxStride},
   dilation : {1, MaxDilation}, residual : {0, 1}]

FlagsOf(bs, p, t, extra) ==
  [padding |-> p, time_size |-> t,
   ds_filters |-> [i \in 1..(Len(bs) + extra) |-> 1],
   ds_repeat |-> [i \in DOMAIN bs |-> bs[i].repeat],
   ds_kernel_size |-> [i \in DOMAIN bs |-> bs[i].kernel_size],
   ds_stride |-> [i \in DOMAIN bs |-> bs[i].stride],
   ds_dilation |-> [i \in DOMAIN bs |-> bs[i].dilation],
   ds_residual |-> [i \in DOMAIN bs |-> bs[i].residual]]

BlockLists == UNION {[1..n -> BlockFlags] : n \in 1..MaxBlocks}

Model(flags) ==
  /\ net_pc = "new"
  /\ net_flags' = flags
  /\ LET r == ModelWrappers(flags)
     IN  /\ net_error' = r.error
         /\ net_wrappers' = r.wrappers
         /\ net_time' = r.time
         /\ net_pc' = IF r.error = "none" THEN "built" ELSE "failed"
  /\ UNCHANGED <<pc, selfVars, callerVars, pureVars, chainVars, delayVars,
                 accessVars, configVars, twinVars, raceVars, stackVars>>

(* Every wrapper of the model constructed again with its cell in mode m,   *)
(* in the order of the model: the first __init__ that raises ends it.      *)
Reinstantiate(m) ==
  /\ net_pc = "built"
  /\ net_error' =
       StackInitError([i \in DOMAIN net_wrappers |-> net_wrappers[i].cell], m)
  /\ net_pc' = IF net_error' = "none" THEN "streaming" ELSE "refused"
  /\ UNCHANGED <<net_flags, net_wrappers, net_time>>
  /\ UNCHANGED <<pc, selfVars, callerVars, pureVars, chainVars, delayVars,
                 accessVars, configVars, twinVars, raceVars, stackVars>>

ResnetNext ==
  \/ \E bs \in BlockLists, p \in Paddings, t \in 1..MaxLen, extra \in {0, 1} :
        net_pc = "new" /\ Model(FlagsOf(bs, p, t, extra))
  \/ \E m \in StreamModes : Reinstantiate(m)

SpecResnet == Init /\ [][ResnetNext]_vars

-----------------------------------------------------------------------------
(* Properties.                                                              *)

LastN(s, n) == SubSeq(s, Len(s) - n + 1, Len(s))

(* The stream was started from the all-zero buffer.                        *)
ZeroStart ==
  mode = "STREAM_EXTERNAL_STATE_INFERENCE"
    => start_state = Zeros(effective_ksize_tdim)

(* The same cell wrapped in non-streaming mode with causal padding, run    *)
(* once on everything fed so far.                                          *)
CausalTwin == NonStreaming(cell, "causal", InitKsize(cell, << >>), fed)

(* C1: for a convolution cell (stride 1, any kernel size and dilation),    *)
(* the streaming output of every step t, from a zero buffer, equals the    *)
(* output at time index t of the non-streaming wrapper applied once to     *)
(* the whole input with causal padding.                                    *)
C1_ConvStreamEqualsCausal ==
  (pc = "built" /\ mode \in StreamModes /\ IsConv(cell) /\ ZeroStart
     /\ fed # << >>)
    => /\ CausalTwin.error = "none"
       /\ Len(CausalTwin.output) = Len(fed)
       /\ Len(outs) = Len(fed)
       /\ \A t \in 1..Len(outs) : outs[t] = <<CausalTwin.output[t]>>

C1_Witness ==
  /\ pc = "built" /\ mode = "STREAM_INTERNAL_STATE_INFERENCE"
  /\ IsConv(cell) /\ cell.kernel_size = 3 /\ cell.dilation_rate = 2
  /\ cell.weights = <<1, 2, 3>>
  /\ fed = <<1, 0, 1, 1>>
  /\ outs = <<(<<3>>), (<<0>>), (<<5>>), (<<3>>)>>

(* C2: for an average-pooling cell with stride = pool size, the streaming  *)
(* output of every step t, from a zero buffer, equals the output at time   *)
(* index t of the non-streaming wrapper applied once to the whole input.   *)
C2_PoolStreamEqualsCausal ==
  (pc = "built" /\ mode \in StreamModes /\ IsPool(cell) /\ ZeroStart
     /\ Len(fed) >= cell.pool_size)
    => /\ CausalTwin.error = "none"
       /\ \A t \in 1..Len(outs) :
            /\ t <= Len(CausalTwin.output)
            /\ outs[t] = <<CausalTwin.output[t]>>

(* C3: in internal-state mode the persisted buffer holds, oldest first,    *)
(* the last W inputs, left-filled with zero steps; the cell was called on  *)
(* exactly that buffer, and the buffer is persisted when the output is     *)
(* returned.                                                               *)
C3_InternalBufferIsLastW ==
  (pc = "built" /\ mode = "STREAM_INTERNAL_STATE_INFERENCE"
     /\ effective_ksize_tdim # NoneK)
    => /\ states = LastN(Zeros(effective_ksize_tdim) \o fed,
                         effective_ksize_tdim)
       /\ fed # << >> => window = states
       /\ (fed # << >> /\ error = "none") => ret = CellCall(cell, states)

C3_Witness ==
  /\ pc = "built" /\ mode = "STREAM_INTERNAL_STATE_INFERENCE"
  /\ effective_ksize_tdim = 3
  /\ fed = <<1, 1, 0, 1>>
  /\ states = <<1, 0, 1>>
  /\ window = states

(* C4: after any number of streaming calls the persisted (internal) or the *)
(* returned and threaded (external) buffer has exactly window_length       *)
(* steps.                                                                  *)
C4_BufferHasWindowLength ==
  (pc = "built" /\ mode \in StreamModes /\ effective_ksize_tdim # NoneK)
    => IF mode = "STREAM_INTERNAL_STATE_INFERENCE"
         THEN Len(states) = effective_ksize_tdim
         ELSE /\ Len(caller_state) = effective_ksize_tdim
              /\ output_state # << >>
                   => Len(output_state) = effective_ksize_tdim

C4_Witness ==
  /\ pc = "built" /\ mode = "STREAM_EXTERNAL_STATE_INFERENCE"
  /\ effective_ksize_tdim = 3
  /\ start_state = <<1, 1, 1>>
  /\ Len(fed) = 4
  /\ Len(output_state) = 3
  /\ caller_state = output_state

C6_ManualEqualsDriverThreading ==
  layers # << >>
    => /\ auto_outs = manual_outs
       /\ auto_states = manual_states
       /\ Len(auto_outs) = Len(chain_fed)
       /\ chain_fed # << >>
            => \A i \in DOMAIN layers :
                 /\ layers[i].input_state = prev_auto_states[i]
                 /\ auto_states[i] = layers[i].output_state
                 /\ Len(auto_states[i]) = layers[i].effective_ksize_tdim

C6_Witness ==
  /\ Len(layers) = 2
  /\ layers[1].effective_ksize_tdim = 3
  /\ layers[2].effective_ksize_tdim = 2
  /\ layers[1].cell.weights = <<1, 2, 3>>
  /\ layers[2].cell.weights = <<1, 2>>
  /\ chain_fed = <<1, 1, 1>>
  /\ auto_outs = <<(<<6>>), (<<13>>), (<<17>>)>>
  /\ auto_states = <<(<<1, 1, 1>>), (<<5, 6>>)>>

C8_PoolStrideMustEqualPoolSize ==
  (pc # "new" /\ kwargs = {} /\ IsPool(cell)
     /\ cell.strides # cell.pool_size)
    => IF mode \in StreamModes
         THEN pc = "failed" /\ error = "ValueError" /\ input_shape = << >>
         ELSE pc \in {"constructed", "built"}

C8_Witness ==
  /\ pc = "failed" /\ IsPool(cell) /\ cell.strides = 1
  /\ cell.pool_size = 2 /\ kwargs = {}
  /\ mode = "STREAM_INTERNAL_STATE_INFERENCE"

(* C9 as stated: in a streaming mode construction fails whenever the cell  *)
(* declares a temporal stride greater than 1, convolution and average      *)
(* pooling alike.                                                          *)
C9_AnyStrideRejected ==
  (pc # "new" /\ mode \in StreamModes /\ (IsConv(cell) \/ IsPool(cell))
     /\ cell.strides > 1)
    => pc = "failed"

(* C9 amended: in a streaming mode construction fails exactly when a       *)
(* convolution declares a temporal stride greater than 1 or an average     *)
(* pooling declares a stride different from its pool size; a pooling cell  *)
(* with pool size 2 and stride 2 is accepted.                              *)
C9_StrideRulesByKind ==
  (pc # "new" /\ kwargs = {} /\ mode \in StreamModes
     /\ (IsConv(cell) \/ IsPool(cell)))
    => (pc = "failed"
          <=> \/ IsConv(cell) /\ cell.strides > 1
              \/ IsPool(cell) /\ cell.strides # cell.pool_size)

C9_Witness ==
  /\ pc = "built" /\ mode = "STREAM_INTERNAL_STATE_INFERENCE"
  /\ IsPool(cell) /\ cell.strides = 2 /\ cell.pool_size = 2

(* C10: a cell that is no convolution, pooling or flatten layer is         *)
(* accepted at construction when an explicit buffer length is supplied and *)
(* rejected only when none is.                                             *)
C10_OtherCellAcceptedWithLength ==
  (pc # "new" /\ cell.kind \in {"Sum", "Lambda"})
    => (pc = "failed" <=> (state_shape = << >> /\ kwargs = {}))

(* C11: in both streaming modes a call whose input does not have exactly   *)
(* one time-step raises, returns nothing, and leaves the persisted buffer  *)
(* (internal state) or the output state exposed by the call before, and    *)
(* the state the caller holds (external state), as they were.              *)
C11_WrongStepCountFailsCleanly ==
  [][\A inputs \in Tensors(2) :
       /\ CallInternal(inputs)
            => /\ error' = "ValueError" /\ ret' = << >>
               /\ states' = states
               /\ fed' = fed /\ outs' = outs
       /\ DriverStep(inputs)
            => /\ error' = "ValueError" /\ ret' = << >>
               /\ output_state' = output_state
               /\ caller_state' = caller_state
               /\ fed' = fed /\ outs' = outs]_vars

(* A two-step call was refused after the buffer had taken three steps.     *)
C11_Witness ==
  /\ pc = "built" /\ mode = "STREAM_INTERNAL_STATE_INFERENCE"
  /\ effective_ksize_tdim = 3
  /\ error = "ValueError" /\ ret = << >>
  /\ fed = <<1, 0, 1>> /\ states = <<1, 0, 1>>

(* C12: in external-state mode a call whose input state has fewer or more  *)
(* time-steps than the window length raises and returns neither an output  *)
(* nor an updated state.                                                   *)
C12_MismatchedStateRefused ==
  (pc = "built" /\ mode = "STREAM_EXTERNAL_STATE_INFERENCE"
     /\ input_state # << >>
     /\ Len(input_state) # effective_ksize_tdim)
    => error # "none" /\ ret = << >>

(* C13: get_input_state and get_output_state of a Stream and of a Delay    *)
(* raise whenever the instance's mode is TRAINING, NON_STREAM_INFERENCE or *)
(* STREAM_INTERNAL_STATE_INFERENCE, before build, after build and after    *)
(* calls alike, and return no value there.                                  *)
C13_AccessorsRaiseOutsideExternalMode ==
  /\ (accessed.layer = "Stream" /\ mode # "STREAM_EXTERNAL_STATE_INFERENCE")
       => (accessed.error = "ValueError" /\ ~accessed.returned)
  /\ (accessed.layer = "Delay"
        /\ delay_mode # "STREAM_EXTERNAL_STATE_INFERENCE")
       => (accessed.error = "ValueError" /\ ~accessed.returned)

(* get_output_state was refused by an internal-state Delay whose buffer    *)
(* holds steps it was fed.                                                  *)
C13_Witness ==
  /\ accessed.layer = "Delay" /\ accessed.accessor = "get_output_state"
  /\ accessed.error = "ValueError"
  /\ delay_pc = "built" /\ delay_mode = "STREAM_INTERNAL_STATE_INFERENCE"
  /\ delay = 2 /\ delay_states = <<1, 2>>

(* C14: in TRAINING and NON_STREAM_INFERENCE modes with padding 'causal',  *)
(* for every supported cell kind the cell is handed the input preceded by  *)
(* exactly window_length - 1 zero steps and nothing appended.              *)
C14_CausalPadsEveryCell ==
  (pc = "built" /\ mode \in NonStreamModes /\ pad_time_dim = "causal"
     /\ effective_ksize_tdim # NoneK /\ error = "none" /\ fed # << >>)
    => window = Zeros(effective_ksize_tdim - 1) \o fed

(* C15: in TRAINING and NON_STREAM_INFERENCE modes with padding 'same' the *)
(* time axis is padded with zero steps on both sides, window_length - 1 in *)
(* total, and not on the left only as with 'causal'.  Stated for a window  *)
(* of 3 or more steps and an input whose first and last steps are not      *)
(* zero, where the side a zero step was put on can be told.                *)
C15_SamePadsBothSides ==
  (pc = "built" /\ mode \in NonStreamModes /\ pad_time_dim = "same"
     /\ IsConv(cell) /\ effective_ksize_tdim >= 3
     /\ error = "none" /\ fed # << >>
     /\ fed[1] # 0 /\ fed[Len(fed)] # 0)
    => /\ Len(window) = Len(fed) + effective_ksize_tdim - 1
       /\ \E left \in 1..(effective_ksize_tdim - 2) :
            window = Zeros(left) \o fed
                       \o Zeros(effective_ksize_tdim - 1 - left)

(* C16: a padding policy that is not one of none, 'same' and 'causal'      *)
(* makes construction fail.                                                *)
C16_MalformedPaddingRejected ==
  (pc # "new" /\ pad_time_dim \notin {"False", "same", "causal"})
    => pc = "failed" /\ input_shape = << >>

(* Every call so far was fed one step.                                     *)
DelayOneStepCalls == \A i \in 1..Len(delay_outs) : Len(delay_outs[i]) = 1

(* C17: a Delay with delay d > 0 in internal-state mode, started from the  *)
(* zero buffer: a call with n input steps returns the n oldest steps of    *)
(* buffer ++ input and keeps the d newest as the buffer; fed one step per  *)
(* call, the first d outputs are the zero step and every later output is   *)
(* the input fed d calls earlier.                                          *)
C17_DelayShiftRegister ==
  [][\A n \in 1..MaxDelayLen : \A inputs \in DelayTensors(n) :
       (DelayCall(inputs) /\ delay > 0
          /\ delay_mode = "STREAM_INTERNAL_STATE_INFERENCE")
         => /\ delay_ret' = SubSeq(delay_states \o inputs, 1, n)
            /\ delay_states' = LastN(delay_states \o inputs, delay)
            /\ DelayOneStepCalls'
                 => \A t \in 1..Len(delay_outs') :
                      delay_outs'[t] = IF t <= delay
                                         THEN <<0>>
                                         ELSE <<delay_fed'[t - delay]>>]_vars

(* Delay 2 fed A, B, C, D one at a time returned 0, 0, A, B.               *)
C17_Witness ==
  /\ delay_pc = "built" /\ delay_mode = "STREAM_INTERNAL_STATE_INFERENCE"
  /\ delay = 2
  /\ delay_fed = <<1, 2, 2, 1>>
  /\ delay_outs = <<(<<0>>), (<<0>>), (<<1>>), (<<2>>)>>
  /\ delay_states = <<2, 1>>

(* C18: a Delay with delay d > 0 in external-state mode builds, and its    *)
(* calls take the state as an input and expose the updated state through   *)
(* get_output_state.                                                        *)
C18_DelayExternalBuilds ==
  (delay_mode = "STREAM_EXTERNAL_STATE_INFERENCE" /\ delay > 0
     /\ delay_pc \notin {"new", "constructed"})
    => delay_pc = "built" /\ delay_error = "none"

(* The buffer of a Delay: the persisted one, or the one its caller holds.  *)
DelayBuffer ==
  IF delay_mode = "STREAM_INTERNAL_STATE_INFERENCE"
    THEN delay_states ELSE delay_held

(* C19: after any sequence of streaming calls on a Delay with delay d > 0, *)
(* with inputs shorter than, as long as or longer than d, the persisted or *)
(* returned buffer has exactly d steps: the d most recent steps of the     *)
(* input stream prefixed with d zero steps, in order.                      *)
C19_DelayBufferIsLastD ==
  (delay > 0
     /\ \/ delay_mode = "STREAM_INTERNAL_STATE_INFERENCE" /\ delay_pc = "built"
        \/ delay_mode = "STREAM_EXTERNAL_STATE_INFERENCE" /\ delay_pc # "new")
    => /\ Len(DelayBuffer) = delay
       /\ DelayBuffer = LastN(Zeros(delay) \o delay_fed, delay)

(* A call of 3 steps on a buffer of 2, then a call of 1 step.              *)
C19_Witness ==
  /\ delay_pc = "built" /\ delay_mode = "STREAM_INTERNAL_STATE_INFERENCE"
  /\ delay = 2
  /\ delay_outs = <<(<<0, 0, 1>>), (<<2>>)>>
  /\ delay_fed = <<1, 2, 1, 2>>
  /\ delay_states = <<1, 2>>

(* C20: a Delay returns its input unchanged on every call when delay = 0,  *)
(* in all four modes, and when the mode is TRAINING or                     *)
(* NON_STREAM_INFERENCE, for any delay; with delay = 0 build allocates no  *)
(* persisted buffer and no state input.                                    *)
C20_DelayIdentity ==
  [][/\ \A n \in 1..MaxDelayLen : \A inputs \in DelayTensors(n) :
          (DelayCall(inputs) /\ (delay = 0 \/ delay_mode \in NonStreamModes))
            => /\ delay_ret' = inputs
               /\ delay_states' = delay_states
               /\ delay_output_state' = delay_output_state
     /\ \A t \in 1..MaxDelayLen :
          (DelayBuild(<<1, t, 1>>) /\ delay = 0)
            => /\ delay_pc' = "built"
               /\ delay_states' = << >>
               /\ delay_state_shape' = << >>
               /\ delay_input_state' = << >>]_vars

(* A Delay with delay 0 in internal-state mode returned the 3 steps of a   *)
(* call and holds no buffer.                                               *)
C20_Witness ==
  /\ delay_pc = "built" /\ delay_mode = "STREAM_INTERNAL_STATE_INFERENCE"
  /\ delay = 0
  /\ delay_outs = <<(<<1, 2, 1>>)>>
  /\ delay_ret = <<1, 2, 1>>
  /\ delay_states = << >> /\ delay_input_state = << >>

(* C21: a sum-over-window cell wrapped with a window of W steps in         *)
(* external-state mode is constructed and built, and fed one step per call *)
(* from the zero buffer its output at every step is the sum of at most the *)
(* last W steps fed.                                                        *)
C21_SumCellSlidingSum ==
  (pc # "new" /\ cell.kind = "Sum"
     /\ mode = "STREAM_EXTERNAL_STATE_INFERENCE"
     /\ (state_shape # << >> \/ kwargs # {}))
    => /\ pc \in {"constructed", "built"}
       /\ \A t \in 1..Len(outs) :
            outs[t] = <<SumSeq(SubSeq(fed, IF t > MaxStateLen
                                             THEN t - MaxStateLen + 1 ELSE 1,
                                      t))>>

(* Some wrapper of the stack has a temporal stride greater than 1.         *)
StackStrided == \E i \in DOMAIN stack : stack[i].strides > 1

StridesAccepted ==
  \/ mode \in NonStreamModes
  \/ (IsConv(cell) \/ IsPool(cell)) => cell.strides = 1

(* A cell that returns what it is given: a convolution of one tap of       *)
(* weight 1 moved by stride 1.                                             *)
IdentityCell ==
  IsConv(cell) /\ cell.kernel_size = 1 /\ cell.strides = 1
    /\ cell.weights = <<1>>

C25_ModeNeverChanges ==
  [][/\ (pc # "new" => mode' = mode)
     /\ (delay_pc # "new" => delay_mode' = delay_mode)]_vars

(* A built internal-state Stream whose call failed, whose accessor failed  *)
(* and whose config was taken is still in internal-state mode.             *)
C25_Witness ==
  /\ pc = "built" /\ mode = "STREAM_INTERNAL_STATE_INFERENCE"
  /\ error = "ValueError"
  /\ accessed.layer = "Stream" /\ accessed.error = "ValueError"
  /\ configs.layer = "Stream"
  /\ configs.config.mode = "STREAM_INTERNAL_STATE_INFERENCE"

(* C26: for a Flatten cell, build in a non-streaming mode on T steps       *)
(* records the state shape [inference_batch_size, T, features]; a wrapper  *)
(* constructed in a streaming mode with the recorded shape has effective   *)
(* window length T and, once built, a buffer of that shape; a state shape  *)
(* that is already set is left as it is by build.                          *)
C26_FlattenShapeRecordedThenReused ==
  [][/\ \A t \in 1..MaxLen :
          (Build(<<1, t, 1>>) /\ IsFlatten(cell))
            => /\ state_shape # << >> => state_shape' = state_shape
               /\ (state_shape = << >> /\ mode \in NonStreamModes)
                    => state_shape' = <<inference_batch_size, t, 1>>
               /\ (state_shape # << >>
                      /\ mode = "STREAM_INTERNAL_STATE_INFERENCE")
                    => states' = Zeros(state_shape[2])
               /\ (state_shape # << >>
                      /\ mode = "STREAM_EXTERNAL_STATE_INFERENCE")
                    => /\ pc' = "built"
                       /\ Len(caller_state') = state_shape[2]
     /\ \A m \in StreamModes :
          (ConstructFromRecorded(m) /\ IsFlatten(cell))
            => /\ pc' = "constructed"
               /\ configs'.config.state_shape = state_shape
               /\ state_shape' = state_shape
               /\ effective_ksize_tdim' = state_shape[2]]_vars

(* A Flatten wrapper constructed in internal-state mode with the shape a   *)
(* training-mode build on 3 steps recorded holds a zero buffer of 3 steps. *)
C26_Witness ==
  /\ pc = "built" /\ IsFlatten(cell)
  /\ mode = "STREAM_INTERNAL_STATE_INFERENCE"
  /\ configs.layer = "Stream"
  /\ configs.config.state_shape = <<1, 3, 1>>
  /\ state_shape = <<1, 3, 1>>
  /\ effective_ksize_tdim = 3
  /\ states = <<0, 0, 0>>

(* The effective temporal receptive field of a convolution or pooling      *)
(* cell.                                                                    *)
ReceptiveField(c) ==
  IF IsConv(c) THEN c.dilation_rate * (c.kernel_size - 1) + 1 ELSE c.pool_size

(* C27: for convolution and average-pooling cells build sets the buffer    *)
(* shape to [inference_batch_size, W, trailing input dims], W being        *)
(* dilation * (kernel_size - 1) + 1 or the pool size, whatever state shape *)
(* was passed at construction; the buffer's time length is W.              *)
C27_BufferShapeIsReceptiveField ==
  [][\A t \in 1..MaxLen :
       (Build(<<1, t, 1>>) /\ (IsConv(cell) \/ IsPool(cell)))
         => /\ pc' = "built"
            /\ state_shape' =
                 <<inference_batch_size, ReceptiveField(cell), 1>>
            /\ mode = "STREAM_INTERNAL_STATE_INFERENCE"
                 => states' = Zeros(ReceptiveField(cell))
            /\ mode = "STREAM_EXTERNAL_STATE_INFERENCE"
                 => Len(caller_state') = ReceptiveField(cell)]_vars

(* A dilated convolution built in internal-state mode holds a zero buffer  *)
(* of 2 * (3 - 1) + 1 = 5 steps, longer than any state shape passed.       *)
C27_Witness ==
  /\ pc = "built" /\ cell.kind = "Conv2D"
  /\ cell.kernel_size = 3 /\ cell.dilation_rate = 2
  /\ mode = "STREAM_INTERNAL_STATE_INFERENCE"
  /\ state_shape = <<1, 5, 1>>
  /\ states = <<0, 0, 0, 0, 0>>

(* C28: an internal-state Stream and an external-state Stream of the same  *)
(* cell, run side by side on the same one-step inputs from zero buffers,   *)
(* the external one being fed each state it returned, give equal outputs   *)
(* at every step, and after every step the internal buffer equals the      *)
(* state the external one returned.                                        *)
C28_InternalEqualsExternal ==
  twin_state # << >>
    => /\ twin_outs = outs
       /\ Len(outs) = Len(fed)
       /\ twin_state = states

(* Three steps in, a kernel-3 convolution has given three outputs on each  *)
(* side and both buffers hold the three steps fed.                         *)
C28_Witness ==
  /\ IsConv(cell) /\ effective_ksize_tdim = 3
  /\ Len(fed) = 3 /\ fed[1] # 0 /\ fed[2] # fed[1]
  /\ Len(twin_outs) = 3
  /\ twin_state = fed /\ states = fed

(* The outputs of successive calls laid end to end.                       *)
RECURSIVE Concatenated(_)
Concatenated(ss) ==
  IF ss = << >> THEN << >> ELSE Head(ss) \o Concatenated(Tail(ss))

(* C29: for a Delay with delay > 0 in internal-state mode from the zero    *)
(* buffer, the outputs of successive calls laid end to end are the delay's *)
(* zero steps followed by the input stream, cut to the stream's length,    *)
(* however the stream was split into calls.                                *)
C29_DelayIgnoresPartition ==
  (delay_pc = "built" /\ delay > 0
     /\ delay_mode = "STREAM_INTERNAL_STATE_INFERENCE")
    => Concatenated(delay_outs)
         = Slice(Zeros(delay) \o delay_fed, 0, Len(delay_fed))

(* A stream of four steps given to a delay of 2 as calls of 1, 2 and 1     *)
(* steps.                                                                   *)
C29_Witness ==
  /\ delay_pc = "built" /\ delay = 2
  /\ delay_mode = "STREAM_INTERNAL_STATE_INFERENCE"
  /\ Len(delay_outs) = 3
  /\ Len(delay_outs[1]) = 1 /\ Len(delay_outs[2]) = 2
  /\ Len(delay_outs[3]) = 1
  /\ delay_fed = <<1, 2, 2, 1>>
  /\ Concatenated(delay_outs) = <<0, 0, 1, 2>>

(* Both calls have returned.                                               *)
RaceOver == \A t \in Threads : race_pc[t] = "done"

(* Both calls read the buffer before either wrote it.                      *)
BothReadFirst ==
  /\ Len(race_order) >= 2
  /\ race_order[1][2] = "read" /\ race_order[2][2] = "read"

Holds(buffer, step) == \E i \in 1..Len(buffer) : <<buffer[i]>> = step

(* The thread that wrote last.                                             *)
LastWriter == race_order[Len(race_order)][1]

(* Interleaved, one of the two new steps is lost; one call after the       *)
(* other, the buffer ends with both, in the order of the calls.            *)
RaceOutcome ==
  IF BothReadFirst
    THEN /\ Holds(states, RaceStep(LastWriter))
         /\ \A t \in Threads \ {LastWriter} : ~Holds(states, RaceStep(t))
    ELSE /\ \A t \in Threads : Holds(states, RaceStep(t))
         /\ SubSeq(states, Len(states) - 1, Len(states))
              = RaceStep(race_order[1][1]) \o RaceStep(LastWriter)

(* C30 as stated, for every window length: two interleaved internal-state  *)
(* calls that both read the buffer before either persists leave only one   *)
(* of the two new steps in it, and under every sequential order of the two *)
(* calls the buffer retains both steps.                                    *)
C30_LostUpdateAnyWindow == RaceOver => RaceOutcome

(* C30: an internal-state call is a non-atomic read-modify-write of the    *)
(* persisted buffer.  For a window of at least two steps: if two calls on  *)
(* one instance both read the buffer before either persists its update,    *)
(* the final buffer holds only one of the two new steps; under every       *)
(* sequential order of the two calls it holds both.  A window of one step  *)
(* holds only the later step in either case.                               *)
C30_LostUpdate ==
  RaceOver
    => IF effective_ksize_tdim >= 2
         THEN RaceOutcome
         ELSE /\ states = RaceStep(LastWriter)
              /\ \A t \in Threads \ {LastWriter} :
                   ~Holds(states, RaceStep(t))

(* Both threads read a window of three steps, then both wrote: the buffer  *)
(* holds thread 1's step and not thread 2's.                               *)
C30_Witness ==
  /\ RaceOver /\ BothReadFirst
  /\ effective_ksize_tdim = 3
  /\ LastWriter = 1
  /\ fed[1] = 1
  /\ states = <<0, 1>> \o RaceStep(1)

(* The model was made with padding 'causal' and every ds_stride 1, and its *)
(* wrappers have been constructed again in a streaming mode.               *)
CausalUnstrided ==
  /\ net_pc \in {"streaming", "refused"}
  /\ net_flags.padding = "causal"
  /\ \A i \in DOMAIN net_flags.ds_stride : net_flags.ds_stride[i] = 1

(* C31: every Stream wrapper ds_tc_resnet.model creates with padding       *)
(* 'causal' and all ds_stride values 1 passes the streaming-mode           *)
(* construction checks when constructed again with the same cell in a      *)
(* streaming mode, the decoder's average-pooling wrapper (pool size = the  *)
(* encoder output's time extent, strides = 1) included.                    *)
C31_CausalModelConverts ==
  CausalUnstrided => (net_pc = "streaming" /\ net_error = "none")

====
